---- MODULE Spec2Model ----
(***************************************************************************)
(* The Lampster BLE protocol driver.                                       *)
(*                                                                         *)
(* One LampsterClient instance: its transport link, its locally tracked    *)
(* LampState, and the position of the call in flight.  Spec is the driver  *)
(* client of the Home Assistant integration                                *)
(* (custom_components/lampster/lampster/client.py); LibSpec is the         *)
(* standalone library client (lampster/client.py), which has the same      *)
(* fields and different write sequences.  Every awaited transport call     *)
(* and every settle delay is one step; log records the transport calls    *)
(* and delays of the call in flight (or of the last call), pre the local   *)
(* state when that call started.                                           *)
(***************************************************************************)
EXTENDS Integers, Sequences, FiniteSets, TLC

VARIABLES
    state,      \* self._state : LampState
    connected,  \* self._client is set and self._client.is_connected
    pc,         \* "idle", or the await the call in flight is suspended before
    call,       \* name of the call in flight / of the last call
    arg,        \* colour argument of that call (None if it takes none)
    log,        \* transport calls and delays made by that call, in order
    pre,        \* self._state when that call started
    result,     \* "none" | "pending" | "ok" | "ConnectionError" | "CommandError"
    rd,         \* bytes read so far by the read_state in flight
    ret,        \* value returned by read_state (None otherwise)
    parked      \* a suspended coroutine: the second caller (ConcSpec), or the
                \* coordinator awaiting its client (CoordSpec)

vars == <<state, connected, pc, call, arg, log, pre, result, rd, ret, parked>>

----------------------------------------------------------------------------
(* constants.py *)

MODE_POWER_ON == 192    \* 0xC0
MODE_POWER_OFF == 64    \* 0x40
MODE_RGB == 168         \* 0xA8
MODE_WHITE == 200       \* 0xC8
MODE_OFF == 40          \* 0x28
MIN_VALUE == 0
MAX_VALUE == 100

CHAR_MODE == "CHAR_MODE"
CHAR_WHITE == "CHAR_WHITE"
CHAR_RGB == "CHAR_RGB"

----------------------------------------------------------------------------
(* models.py *)

None == <<>>

\* faulty variant of the range test: the upper limit is excluded
ValidChannel_exclusive(v) == 0 <= v /\ v < 100

\* RGBColor.__post_init__ / WhiteColor.__post_init__: 0 <= value <= 100
ValidChannel(v) == 0 <= v /\ v <= 100

RGBColorOk(r, g, b) == ValidChannel(r) /\ ValidChannel(g) /\ ValidChannel(b)

WhiteColorOk(w, c) == ValidChannel(w) /\ ValidChannel(c)

\* RGBColor(red, green, blue), WhiteColor(warm, cold): the dataclass values
RGBColor(r, g, b) == [red |-> r, green |-> g, blue |-> b]

WhiteColor(w, c) == [warm |-> w, cold |-> c]

\* faulty variant of WhiteColor.to_bytes: the channels are sent cold first
white_to_bytes_swapped(color) == <<color.cold, color.warm>>

\* faulty variant of RGBColor.to_bytes: the channels are sent blue first
rgb_to_bytes_bgr(color) == <<color.blue, color.green, color.red>>

\* faulty variant of WhiteColor.to_bytes: the channels are scaled to 0..255
white_to_bytes_scaled(color) ==
    <<(color.warm * 255) \div 100, (color.cold * 255) \div 100>>

\* to_bytes(): bytes([red, green, blue]) / bytes([warm, cold])
rgb_to_bytes(color) == <<color.red, color.green, color.blue>>

white_to_bytes(color) == <<color.warm, color.cold>>

LampState(on, m, rgb, white) ==
    [is_on |-> on, mode |-> m, rgb_color |-> rgb, white_color |-> white]

----------------------------------------------------------------------------
(* Inputs *)

\* colours the caller passes to set_rgb_color / set_white_color
RGBInputs == {RGBColor(10, 20, 30), RGBColor(0, 0, 100)}

WhiteInputs == {WhiteColor(70, 30), WhiteColor(0, 100)}

----------------------------------------------------------------------------
(* Transport events *)

WriteEv(char, val, response, ok) ==
    [kind |-> "write", char |-> char, val |-> val, response |-> response,
     ok |-> ok, ms |-> 0]

SleepEv(ms) ==
    [kind |-> "sleep", char |-> "", val |-> <<>>, response |-> FALSE,
     ok |-> TRUE, ms |-> ms]

ReadEv(char, val, ok) ==
    [kind |-> "read", char |-> char, val |-> val, response |-> FALSE,
     ok |-> ok, ms |-> 0]

\* self._client.write_gatt_char(char, val, response=...): on a live link the
\* write is issued and either completes or raises; without a link it raises
\* before anything is sent
write_gatt_char(l, char, val, response, ok) ==
    IF ~connected THEN [exc |-> "BleakError", log |-> l]
    ELSE [exc |-> IF ok THEN "none" ELSE "BleakError",
          log |-> Append(l, WriteEv(char, val, response, ok))]

\* asyncio.sleep(seconds)
sleep(l, ms) == Append(l, SleepEv(ms))

----------------------------------------------------------------------------
(* LampsterClient: construction, connection *)

\* a caller that has no call in flight and has made none
IdleCaller ==
    [pc |-> "idle", call |-> "none", arg |-> None, log |-> <<>>,
     pre |-> LampState(FALSE, "off", None, None), result |-> "none",
     rd |-> <<>>, ret |-> None]

\* __init__: no transport, LampState(is_on=False, mode="off")
Init ==
    /\ state = LampState(FALSE, "off", None, None)
    /\ connected = FALSE
    /\ pc = "idle"
    /\ call = "none"
    /\ arg = None
    /\ log = <<>>
    /\ pre = LampState(FALSE, "off", None, None)
    /\ result = "none"
    /\ rd = <<>>
    /\ ret = None
    /\ parked = IdleCaller

\* a public coroutine is entered: the call's record starts
Enter(name, a) ==
    /\ pc = "idle"
    /\ call' = name
    /\ arg' = a
    /\ pre' = state
    /\ ret' = None

\* the coroutine raises exc to its caller
Raise(exc) ==
    /\ pc' = "idle"
    /\ result' = exc

\* the coroutine returns normally
Return ==
    /\ pc' = "idle"
    /\ result' = "ok"

\* the coroutine suspends before the await named next
Goto(next) ==
    /\ pc' = next
    /\ result' = "pending"

\* connect(): a new BleakClient is connected, or the attempt raises
connect ==
    /\ Enter("connect", None)
    /\ log' = <<>>
    /\ \E ok \in BOOLEAN :
        /\ connected' = ok
        /\ IF ok THEN Return ELSE Raise("ConnectionError")
    /\ UNCHANGED <<state, rd, parked>>

\* disconnect(): closes the link if there is one
disconnect ==
    /\ Enter("disconnect", None)
    /\ log' = <<>>
    /\ connected' = FALSE
    /\ Return
    /\ UNCHANGED <<state, rd, parked>>

\* the link drops on its own (is_connected turns false), at any time
link_lost ==
    /\ connected
    /\ connected' = FALSE
    /\ UNCHANGED <<state, pc, call, arg, log, pre, result, rd, ret, parked>>

----------------------------------------------------------------------------
(* LampsterClient (custom_components/lampster/lampster/client.py) *)

\* faulty variant of _write_mode: the mode byte is written without response
write_mode_without_response(l, mode, ok) ==
    IF ~connected THEN [exc |-> "ConnectionError", log |-> l]
    ELSE LET w == write_gatt_char(l, CHAR_MODE, <<mode>>, FALSE, ok)
         IN  [exc |-> IF w.exc = "none" THEN "none" ELSE "CommandError",
              log |-> w.log]

\* faulty variant of _write_mode: the link is not checked, so a missing link
\* shows as the failure of the write
write_mode_no_link_check(l, mode, ok) ==
    LET w == write_gatt_char(l, CHAR_MODE, <<mode>>, TRUE, ok)
    IN  [exc |-> IF w.exc = "none" THEN "none" ELSE "CommandError",
         log |-> w.log]

\* _write_mode(mode): ConnectionError without a link, else a write with
\* response to the mode characteristic, CommandError if it raises
write_mode(l, mode, ok) ==
    IF ~connected THEN [exc |-> "ConnectionError", log |-> l]
    ELSE LET w == write_gatt_char(l, CHAR_MODE, <<mode>>, TRUE, ok)
         IN  [exc |-> IF w.exc = "none" THEN "none" ELSE "CommandError",
              log |-> w.log]

\* faulty variant of power_on's entry: the call is refused when the local
\* state is already on
power_on_rejects_when_on ==
    /\ Enter("power_on", None)
    /\ IF ~connected
         THEN log' = <<>> /\ Raise("ConnectionError")
         ELSE IF state.is_on
           THEN log' = <<>> /\ Raise("CommandError")
           ELSE \E ok \in BOOLEAN :
                  LET w == write_mode(<<>>, MODE_POWER_ON, ok)
                  IN  /\ log' = w.log
                      /\ IF w.exc = "none" THEN Goto("power_on_sleep")
                                           ELSE Raise("CommandError")
    /\ UNCHANGED <<state, connected, rd, parked>>

\* faulty variant of power_on's first write: the white mode is selected before
\* the lamp is powered on
power_on_white_mode_first ==
    /\ Enter("power_on", None)
    /\ IF ~connected
         THEN log' = <<>> /\ Raise("ConnectionError")
         ELSE \E ok \in BOOLEAN :
                LET w == write_mode(<<>>, MODE_WHITE, ok)
                IN  /\ log' = w.log
                    /\ IF w.exc = "none" THEN Goto("power_on_sleep")
                                         ELSE Raise("CommandError")
    /\ UNCHANGED <<state, connected, rd, parked>>

\* power_on, lines 152-159: link check, then MODE=POWER_ON
power_on_write_power_on ==
    /\ Enter("power_on", None)
    /\ IF ~connected
         THEN log' = <<>> /\ Raise("ConnectionError")
         ELSE \E ok \in BOOLEAN :
                LET w == write_mode(<<>>, MODE_POWER_ON, ok)
                IN  /\ log' = w.log
                    /\ IF w.exc = "none" THEN Goto("power_on_sleep")
                                         ELSE Raise("CommandError")
    /\ UNCHANGED <<state, connected, rd, parked>>

\* power_on, line 160
power_on_sleep ==
    /\ pc = "power_on_sleep"
    /\ log' = sleep(log, 400)
    /\ Goto("power_on_write_white_mode")
    /\ UNCHANGED <<state, connected, call, arg, pre, rd, ret, parked>>

\* power_on, line 161: any exception of _write_mode becomes CommandError
power_on_write_white_mode ==
    /\ pc = "power_on_write_white_mode"
    /\ \E ok \in BOOLEAN :
        LET w == write_mode(log, MODE_WHITE, ok)
        IN  /\ log' = w.log
            /\ IF w.exc = "none" THEN Goto("power_on_write_white")
                                 ELSE Raise("CommandError")
    /\ UNCHANGED <<state, connected, call, arg, pre, rd, ret, parked>>

\* faulty variant of power_on's last step: the LampState is one object shared
\* by all clients, so the other instance sees the assignment too
power_on_write_white_shared_state ==
    /\ pc = "power_on_write_white"
    /\ \E ok \in BOOLEAN :
        LET w == write_gatt_char(log, CHAR_WHITE, <<50, 0>>, FALSE, ok)
        IN  /\ log' = w.log
            /\ IF w.exc = "none"
                 THEN /\ state' = [state EXCEPT !.is_on = TRUE,
                                                !.mode = "white",
                                                !.white_color = WhiteColor(50, 0)]
                      /\ Return
                 ELSE /\ state' = state
                      /\ Raise("CommandError")
    /\ parked' = [parked EXCEPT !.state = state']
    /\ UNCHANGED <<connected, call, arg, pre, rd, ret>>

\* faulty variant of power_on's last step: the remembered RGB colour is
\* dropped when the lamp is put in white mode
power_on_forgets_rgb ==
    /\ pc = "power_on_write_white"
    /\ \E ok \in BOOLEAN :
        LET w == write_gatt_char(log, CHAR_WHITE, <<50, 0>>, FALSE, ok)
        IN  /\ log' = w.log
            /\ IF w.exc = "none"
                 THEN /\ state' = LampState(TRUE, "white", None, WhiteColor(50, 0))
                      /\ Return
                 ELSE /\ state' = state
                      /\ Raise("CommandError")
    /\ UNCHANGED <<connected, call, arg, pre, rd, ret, parked>>

\* power_on, lines 162-169: WHITE=[50,0] without response, then the local
\* state is set
power_on_write_white ==
    /\ pc = "power_on_write_white"
    /\ \E ok \in BOOLEAN :
        LET w == write_gatt_char(log, CHAR_WHITE, <<50, 0>>, FALSE, ok)
        IN  /\ log' = w.log
            /\ IF w.exc = "none"
                 THEN /\ state' = [state EXCEPT !.is_on = TRUE,
                                                !.mode = "white",
                                                !.white_color = WhiteColor(50, 0)]
                      /\ Return
                 ELSE /\ state' = state
                      /\ Raise("CommandError")
    /\ UNCHANGED <<connected, call, arg, pre, rd, ret, parked>>

\* power_off, lines 180-185: link check, then MODE=WHITE
power_off_write_white_mode ==
    /\ Enter("power_off", None)
    /\ IF ~connected
         THEN log' = <<>> /\ Raise("ConnectionError")
         ELSE \E ok \in BOOLEAN :
                LET w == write_mode(<<>>, MODE_WHITE, ok)
                IN  /\ log' = w.log
                    /\ IF w.exc = "none" THEN Goto("power_off_sleep_186")
                                         ELSE Raise("CommandError")
    /\ UNCHANGED <<state, connected, rd, parked>>

\* power_off, line 186
power_off_sleep_186 ==
    /\ pc = "power_off_sleep_186"
    /\ log' = sleep(log, 400)
    /\ Goto("power_off_write_white")
    /\ UNCHANGED <<state, connected, call, arg, pre, rd, ret, parked>>

\* faulty variant of power_off's second write: a failure of WHITE=[0,0] is
\* swallowed and the sequence goes on
power_off_write_white_ignores_failure ==
    /\ pc = "power_off_write_white"
    /\ \E ok \in BOOLEAN :
        LET w == write_gatt_char(log, CHAR_WHITE, <<0, 0>>, FALSE, ok)
        IN  /\ log' = w.log
            /\ Goto("power_off_sleep_190")
    /\ UNCHANGED <<state, connected, call, arg, pre, rd, ret, parked>>

\* power_off, line 189: WHITE=[0,0] without response
power_off_write_white ==
    /\ pc = "power_off_write_white"
    /\ \E ok \in BOOLEAN :
        LET w == write_gatt_char(log, CHAR_WHITE, <<0, 0>>, FALSE, ok)
        IN  /\ log' = w.log
            /\ IF w.exc = "none" THEN Goto("power_off_sleep_190")
                                 ELSE Raise("CommandError")
    /\ UNCHANGED <<state, connected, call, arg, pre, rd, ret, parked>>

\* power_off, line 190
power_off_sleep_190 ==
    /\ pc = "power_off_sleep_190"
    /\ log' = sleep(log, 100)
    /\ Goto("power_off_write_rgb")
    /\ UNCHANGED <<state, connected, call, arg, pre, rd, ret, parked>>

\* faulty variant of power_off: the RGB register is not zeroed
power_off_skips_rgb ==
    /\ pc = "power_off_write_rgb"
    /\ log' = log
    /\ Goto("power_off_sleep_192")
    /\ UNCHANGED <<state, connected, call, arg, pre, rd, ret, parked>>

\* power_off, line 191: RGB=[0,0,0] without response
power_off_write_rgb ==
    /\ pc = "power_off_write_rgb"
    /\ \E ok \in BOOLEAN :
        LET w == write_gatt_char(log, CHAR_RGB, <<0, 0, 0>>, FALSE, ok)
        IN  /\ log' = w.log
            /\ IF w.exc = "none" THEN Goto("power_off_sleep_192")
                                 ELSE Raise("CommandError")
    /\ UNCHANGED <<state, connected, call, arg, pre, rd, ret, parked>>

\* power_off, line 192
power_off_sleep_192 ==
    /\ pc = "power_off_sleep_192"
    /\ log' = sleep(log, 400)
    /\ Goto("power_off_write_power_off")
    /\ UNCHANGED <<state, connected, call, arg, pre, rd, ret, parked>>

\* faulty variant of power_off's last step: the idle value the lamp reports
\* when off (0x28) is written in the place of the power-off command
power_off_writes_idle_value ==
    /\ pc = "power_off_write_power_off"
    /\ \E ok \in BOOLEAN :
        LET w == write_mode(log, MODE_OFF, ok)
        IN  /\ log' = w.log
            /\ IF w.exc = "none"
                 THEN /\ state' = [state EXCEPT !.is_on = FALSE, !.mode = "off"]
                      /\ Return
                 ELSE /\ state' = state
                      /\ Raise("CommandError")
    /\ UNCHANGED <<connected, call, arg, pre, rd, ret, parked>>

\* faulty variant of power_off's last step: the zeros written to the device
\* are also stored as the remembered colours
power_off_zeroes_memory ==
    /\ pc = "power_off_write_power_off"
    /\ \E ok \in BOOLEAN :
        LET w == write_mode(log, MODE_POWER_OFF, ok)
        IN  /\ log' = w.log
            /\ IF w.exc = "none"
                 THEN /\ state' = LampState(FALSE, "off", RGBColor(0, 0, 0),
                                            WhiteColor(0, 0))
                      /\ Return
                 ELSE /\ state' = state
                      /\ Raise("CommandError")
    /\ UNCHANGED <<connected, call, arg, pre, rd, ret, parked>>

\* power_off, lines 195-201: MODE=POWER_OFF, then the local state is set
power_off_write_power_off ==
    /\ pc = "power_off_write_power_off"
    /\ \E ok \in BOOLEAN :
        LET w == write_mode(log, MODE_POWER_OFF, ok)
        IN  /\ log' = w.log
            /\ IF w.exc = "none"
                 THEN /\ state' = [state EXCEPT !.is_on = FALSE, !.mode = "off"]
                      /\ Return
                 ELSE /\ state' = state
                      /\ Raise("CommandError")
    /\ UNCHANGED <<connected, call, arg, pre, rd, ret, parked>>


\* faulty variant of set_rgb_mode: selecting the mode also marks the lamp on
set_rgb_mode_turns_on ==
    /\ Enter("set_rgb_mode", None)
    /\ \E ok \in BOOLEAN :
        LET w == write_mode(<<>>, MODE_RGB, ok)
        IN  /\ log' = w.log
            /\ IF w.exc = "none"
                 THEN /\ state' = [state EXCEPT !.mode = "rgb", !.is_on = TRUE]
                      /\ Return
                 ELSE /\ state' = state
                      /\ Raise(w.exc)
    /\ UNCHANGED <<connected, rd, parked>>

\* set_rgb_mode, lines 203-212: one MODE=MODE_RGB write; the exception of
\* _write_mode reaches the caller as it is
set_rgb_mode ==
    /\ Enter("set_rgb_mode", None)
    /\ \E ok \in BOOLEAN :
        LET w == write_mode(<<>>, MODE_RGB, ok)
        IN  /\ log' = w.log
            /\ IF w.exc = "none"
                 THEN /\ state' = [state EXCEPT !.mode = "rgb"]
                      /\ Return
                 ELSE /\ state' = state
                      /\ Raise(w.exc)
    /\ UNCHANGED <<connected, rd, parked>>

\* set_white_mode, lines 214-223: one MODE=MODE_WHITE write; the exception of
\* _write_mode reaches the caller as it is
set_white_mode ==
    /\ Enter("set_white_mode", None)
    /\ \E ok \in BOOLEAN :
        LET w == write_mode(<<>>, MODE_WHITE, ok)
        IN  /\ log' = w.log
            /\ IF w.exc = "none"
                 THEN /\ state' = [state EXCEPT !.mode = "white"]
                      /\ Return
                 ELSE /\ state' = state
                      /\ Raise(w.exc)
    /\ UNCHANGED <<connected, rd, parked>>

\* faulty variant of set_rgb_color's first write: the mode switch is sent in
\* the place of the colour bytes (mode first, as the library client does)
set_rgb_color_mode_first ==
    /\ \E color \in RGBInputs :
        /\ Enter("set_rgb_color", color)
        /\ IF ~connected
             THEN log' = <<>> /\ Raise("ConnectionError")
             ELSE \E ok \in BOOLEAN :
                    LET w == write_mode(<<>>, MODE_RGB, ok)
                    IN  /\ log' = w.log
                        /\ IF w.exc = "none" THEN Goto("set_rgb_color_sleep_241")
                                             ELSE Raise("CommandError")
    /\ UNCHANGED <<state, connected, rd, parked>>

\* set_rgb_color, lines 235-240: link check, then the colour bytes without
\* response
set_rgb_color_write_rgb ==
    /\ \E color \in RGBInputs :
        /\ Enter("set_rgb_color", color)
        /\ IF ~connected
             THEN log' = <<>> /\ Raise("ConnectionError")
             ELSE \E ok \in BOOLEAN :
                    LET w == write_gatt_char(<<>>, CHAR_RGB, rgb_to_bytes(color),
                                             FALSE, ok)
                    IN  /\ log' = w.log
                        /\ IF w.exc = "none" THEN Goto("set_rgb_color_sleep_241")
                                             ELSE Raise("CommandError")
    /\ UNCHANGED <<state, connected, rd, parked>>

\* set_rgb_color, line 241
set_rgb_color_sleep_241 ==
    /\ pc = "set_rgb_color_sleep_241"
    /\ log' = sleep(log, 200)
    /\ Goto("set_rgb_color_set_rgb_mode")
    /\ UNCHANGED <<state, connected, call, arg, pre, rd, ret, parked>>

\* faulty variant of set_rgb_mode inside set_rgb_color: self._state.mode is
\* assigned before the write is known to have completed
set_rgb_color_mode_assigned_early ==
    /\ pc = "set_rgb_color_set_rgb_mode"
    /\ \E ok \in BOOLEAN :
        LET w == write_mode(log, MODE_RGB, ok)
        IN  /\ log' = w.log
            /\ state' = [state EXCEPT !.mode = "rgb"]
            /\ IF w.exc = "none" THEN Goto("set_rgb_color_sleep_245")
                                 ELSE Raise("CommandError")
    /\ UNCHANGED <<connected, call, arg, pre, rd, ret, parked>>

\* set_rgb_color, line 244: await self.set_rgb_mode(), which writes
\* MODE=MODE_RGB and on success sets self._state.mode; any exception becomes
\* CommandError
set_rgb_color_set_rgb_mode ==
    /\ pc = "set_rgb_color_set_rgb_mode"
    /\ \E ok \in BOOLEAN :
        LET w == write_mode(log, MODE_RGB, ok)
        IN  /\ log' = w.log
            /\ IF w.exc = "none"
                 THEN /\ state' = [state EXCEPT !.mode = "rgb"]
                      /\ Goto("set_rgb_color_sleep_245")
                 ELSE /\ state' = state
                      /\ Raise("CommandError")
    /\ UNCHANGED <<connected, call, arg, pre, rd, ret, parked>>

\* faulty variant of set_rgb_color's test of is_on: MODE=POWER_ON is sent
\* whether or not the lamp is on
set_rgb_color_always_power_on ==
    /\ pc = "set_rgb_color_sleep_245"
    /\ log' = sleep(log, 400)
    /\ state' = state
    /\ Goto("set_rgb_color_write_power_on")
    /\ UNCHANGED <<connected, call, arg, pre, rd, ret, parked>>

\* set_rgb_color, lines 245-248 and 252-255: the settle delay, then the test of
\* self._state.is_on; a lamp that is on needs no further write
set_rgb_color_sleep_245 ==
    /\ pc = "set_rgb_color_sleep_245"
    /\ log' = sleep(log, 400)
    /\ IF ~state.is_on
         THEN /\ state' = state
              /\ Goto("set_rgb_color_write_power_on")
         ELSE /\ state' = [state EXCEPT !.is_on = TRUE, !.rgb_color = arg]
              /\ Return
    /\ UNCHANGED <<connected, call, arg, pre, rd, ret, parked>>

\* set_rgb_color, line 249: MODE=POWER_ON for a lamp that was off
set_rgb_color_write_power_on ==
    /\ pc = "set_rgb_color_write_power_on"
    /\ \E ok \in BOOLEAN :
        LET w == write_mode(log, MODE_POWER_ON, ok)
        IN  /\ log' = w.log
            /\ IF w.exc = "none" THEN Goto("set_rgb_color_sleep_250")
                                 ELSE Raise("CommandError")
    /\ UNCHANGED <<state, connected, call, arg, pre, rd, ret, parked>>

\* set_rgb_color, lines 250-255: the last delay, then the local state is set
set_rgb_color_sleep_250 ==
    /\ pc = "set_rgb_color_sleep_250"
    /\ log' = sleep(log, 400)
    /\ state' = [state EXCEPT !.is_on = TRUE, !.rgb_color = arg]
    /\ Return
    /\ UNCHANGED <<connected, call, arg, pre, rd, ret, parked>>

\* set_white_color, lines 269-274: link check, then the colour bytes without
\* response
set_white_color_write_white ==
    /\ \E color \in WhiteInputs :
        /\ Enter("set_white_color", color)
        /\ IF ~connected
             THEN log' = <<>> /\ Raise("ConnectionError")
             ELSE \E ok \in BOOLEAN :
                    LET w == write_gatt_char(<<>>, CHAR_WHITE, white_to_bytes(color),
                                             FALSE, ok)
                    IN  /\ log' = w.log
                        /\ IF w.exc = "none" THEN Goto("set_white_color_sleep_275")
                                             ELSE Raise("CommandError")
    /\ UNCHANGED <<state, connected, rd, parked>>

\* set_white_color, line 275
set_white_color_sleep_275 ==
    /\ pc = "set_white_color_sleep_275"
    /\ log' = sleep(log, 200)
    /\ Goto("set_white_color_set_white_mode")
    /\ UNCHANGED <<state, connected, call, arg, pre, rd, ret, parked>>

\* set_white_color, line 278: await self.set_white_mode(), which writes
\* MODE=MODE_WHITE and on success sets self._state.mode; any exception becomes
\* CommandError
set_white_color_set_white_mode ==
    /\ pc = "set_white_color_set_white_mode"
    /\ \E ok \in BOOLEAN :
        LET w == write_mode(log, MODE_WHITE, ok)
        IN  /\ log' = w.log
            /\ IF w.exc = "none"
                 THEN /\ state' = [state EXCEPT !.mode = "white"]
                      /\ Goto("set_white_color_sleep_279")
                 ELSE /\ state' = state
                      /\ Raise("CommandError")
    /\ UNCHANGED <<connected, call, arg, pre, rd, ret, parked>>

\* faulty variant of set_white_color's state update: switching to white
\* clears the remembered RGB colour
set_white_color_forgets_rgb ==
    /\ pc = "set_white_color_sleep_279"
    /\ log' = sleep(log, 400)
    /\ IF ~state.is_on
         THEN /\ state' = state
              /\ Goto("set_white_color_write_power_on")
         ELSE /\ state' = [state EXCEPT !.is_on = TRUE, !.white_color = arg,
                                        !.rgb_color = None]
              /\ Return
    /\ UNCHANGED <<connected, call, arg, pre, rd, ret, parked>>

\* set_white_color, lines 279-282 and 286-289: the settle delay, then the test of
\* self._state.is_on; a lamp that is on needs no further write
set_white_color_sleep_279 ==
    /\ pc = "set_white_color_sleep_279"
    /\ log' = sleep(log, 400)
    /\ IF ~state.is_on
         THEN /\ state' = state
              /\ Goto("set_white_color_write_power_on")
         ELSE /\ state' = [state EXCEPT !.is_on = TRUE, !.white_color = arg]
              /\ Return
    /\ UNCHANGED <<connected, call, arg, pre, rd, ret, parked>>

\* set_white_color, line 283: MODE=POWER_ON for a lamp that was off
set_white_color_write_power_on ==
    /\ pc = "set_white_color_write_power_on"
    /\ \E ok \in BOOLEAN :
        LET w == write_mode(log, MODE_POWER_ON, ok)
        IN  /\ log' = w.log
            /\ IF w.exc = "none" THEN Goto("set_white_color_sleep_284")
                                 ELSE Raise("CommandError")
    /\ UNCHANGED <<state, connected, call, arg, pre, rd, ret, parked>>

\* set_white_color, lines 284-289: the last delay, then the local state is set
set_white_color_sleep_284 ==
    /\ pc = "set_white_color_sleep_284"
    /\ log' = sleep(log, 400)
    /\ state' = [state EXCEPT !.is_on = TRUE, !.white_color = arg]
    /\ Return
    /\ UNCHANGED <<connected, call, arg, pre, rd, ret, parked>>

----------------------------------------------------------------------------
(* read_state / refresh_state *)

\* what the three characteristics may hold when they are read: the device is
\* written by other centrals and by its button, so the bytes are inputs
ModeReads == {<<MODE_POWER_ON>>, <<MODE_POWER_OFF>>, <<MODE_RGB>>,
              <<MODE_WHITE>>, <<MODE_OFF>>, <<153>>}

RGBReads == {<<10, 20, 30>>, <<0, 0, 255>>, <<7>>}

WhiteReads == {<<70, 30>>, <<101, 0>>, <<>>}

\* self._client.read_gatt_char(char): the bytes, or an exception
read_gatt_char(l, char, val, ok) ==
    IF ~connected THEN [exc |-> "BleakError", log |-> l]
    ELSE [exc |-> IF ok THEN "none" ELSE "BleakError",
          log |-> Append(l, ReadEv(char, IF ok THEN val ELSE <<>>, ok))]

\* faulty variant of the is_on decoding: every byte but the power-off command
\* counts as on
decode_is_on_not_power_off(mode_val) == mode_val # MODE_POWER_OFF

\* read_state, line 317
decode_is_on(mode_val) == mode_val \in {MODE_POWER_ON, MODE_RGB, MODE_WHITE}

\* faulty variant of the mode decoding: the first branch, which tests for
\* MODE_RGB or MODE_POWER_ON, yields "rgb" for both
decode_mode_power_on_as_rgb(mode_val) ==
    IF mode_val = MODE_RGB \/ mode_val = MODE_POWER_ON THEN "rgb"
    ELSE IF mode_val = MODE_WHITE THEN "white"
    ELSE IF mode_val = MODE_POWER_OFF \/ mode_val = MODE_OFF THEN "off"
    ELSE "unknown"

\* read_state, lines 319-326
decode_mode(mode_val) ==
    IF mode_val = MODE_RGB \/ mode_val = MODE_POWER_ON
      THEN (IF mode_val = MODE_RGB THEN "rgb" ELSE "white")
    ELSE IF mode_val = MODE_WHITE THEN "white"
    ELSE IF mode_val = MODE_POWER_OFF \/ mode_val = MODE_OFF THEN "off"
    ELSE "unknown"

\* read_state, lines 328-336: a colour is built only from enough bytes, and
\* building it raises ValueError on a channel outside 0..100
parse_raises(rgb_bytes, white_bytes) ==
    \/ Len(rgb_bytes) >= 3
         /\ ~RGBColorOk(rgb_bytes[1], rgb_bytes[2], rgb_bytes[3])
    \/ Len(white_bytes) >= 2
         /\ ~WhiteColorOk(white_bytes[1], white_bytes[2])

\* read_state, lines 315-343: the LampState decoded from the three reads
parse_state(mode_bytes, rgb_bytes, white_bytes) ==
    LampState(decode_is_on(mode_bytes[1]),
              decode_mode(mode_bytes[1]),
              IF Len(rgb_bytes) >= 3
                THEN RGBColor(rgb_bytes[1], rgb_bytes[2], rgb_bytes[3])
                ELSE None,
              IF Len(white_bytes) >= 2
                THEN WhiteColor(white_bytes[1], white_bytes[2])
                ELSE None)

\* read_state, lines 306-311, entered directly or through refresh_state
\* (line 361): link check, then the mode characteristic is read
read_mode(name) ==
    /\ Enter(name, None)
    /\ IF ~connected
         THEN log' = <<>> /\ rd' = <<>> /\ Raise("ConnectionError")
         ELSE \E ok \in BOOLEAN, mode_bytes \in ModeReads :
                LET r == read_gatt_char(<<>>, CHAR_MODE, mode_bytes, ok)
                IN  /\ log' = r.log
                    /\ IF r.exc = "none"
                         THEN rd' = <<mode_bytes>> /\ Goto("read_state_read_rgb")
                         ELSE rd' = <<>> /\ Raise("CommandError")
    /\ UNCHANGED <<state, connected, parked>>

read_state == read_mode("read_state")

refresh_state == read_mode("refresh_state")

\* read_state, line 312
read_state_read_rgb ==
    /\ pc = "read_state_read_rgb"
    /\ \E ok \in BOOLEAN, rgb_bytes \in RGBReads :
        LET r == read_gatt_char(log, CHAR_RGB, rgb_bytes, ok)
        IN  /\ log' = r.log
            /\ IF r.exc = "none"
                 THEN rd' = Append(rd, rgb_bytes) /\ Goto("read_state_read_white")
                 ELSE rd' = <<>> /\ Raise("CommandError")
    /\ UNCHANGED <<state, connected, call, arg, pre, ret, parked>>

\* faulty variant of read_state's last step: read_state too assigns the
\* decoded state to self._state
read_state_read_white_assigns_state ==
    /\ pc = "read_state_read_white"
    /\ \E ok \in BOOLEAN, white_bytes \in WhiteReads :
        LET r == read_gatt_char(log, CHAR_WHITE, white_bytes, ok)
            mode_bytes == rd[1]
            rgb_bytes == rd[2]
        IN  /\ log' = r.log
            /\ IF r.exc = "none" /\ ~parse_raises(rgb_bytes, white_bytes)
                 THEN LET s == parse_state(mode_bytes, rgb_bytes, white_bytes)
                      IN  /\ ret' = s
                          /\ state' = s
                          /\ Return
                 ELSE /\ ret' = None
                      /\ state' = state
                      /\ Raise("CommandError")
    /\ rd' = <<>>
    /\ UNCHANGED <<connected, call, arg, pre, parked>>

\* faulty variant of refresh_state: a failed read-back resets self._state to
\* the state of a new client
read_state_read_white_resets_on_failure ==
    /\ pc = "read_state_read_white"
    /\ \E ok \in BOOLEAN, white_bytes \in WhiteReads :
        LET r == read_gatt_char(log, CHAR_WHITE, white_bytes, ok)
            mode_bytes == rd[1]
            rgb_bytes == rd[2]
        IN  /\ log' = r.log
            /\ IF r.exc = "none" /\ ~parse_raises(rgb_bytes, white_bytes)
                 THEN LET s == parse_state(mode_bytes, rgb_bytes, white_bytes)
                      IN  /\ ret' = s
                          /\ state' = IF call = "refresh_state" THEN s ELSE state
                          /\ Return
                 ELSE /\ ret' = None
                      /\ state' = IF call = "refresh_state"
                                     THEN LampState(FALSE, "off", None, None)
                                     ELSE state
                      /\ Raise("CommandError")
    /\ rd' = <<>>
    /\ UNCHANGED <<connected, call, arg, pre, parked>>

\* read_state, lines 313-349, and refresh_state, line 361: the white
\* characteristic is read, the state is decoded and returned; refresh_state
\* assigns it to self._state
read_state_read_white ==
    /\ pc = "read_state_read_white"
    /\ \E ok \in BOOLEAN, white_bytes \in WhiteReads :
        LET r == read_gatt_char(log, CHAR_WHITE, white_bytes, ok)
            mode_bytes == rd[1]
            rgb_bytes == rd[2]
        IN  /\ log' = r.log
            /\ IF r.exc = "none" /\ ~parse_raises(rgb_bytes, white_bytes)
                 THEN LET s == parse_state(mode_bytes, rgb_bytes, white_bytes)
                      IN  /\ ret' = s
                          /\ state' = IF call = "refresh_state" THEN s ELSE state
                          /\ Return
                 ELSE /\ ret' = None
                      /\ state' = state
                      /\ Raise("CommandError")
    /\ rd' = <<>>
    /\ UNCHANGED <<connected, call, arg, pre, parked>>

----------------------------------------------------------------------------
(* Cancellation *)

\* the task running the call is cancelled: CancelledError is raised at the
\* await the coroutine is suspended on; it is not an Exception, so no
\* except clause of the client catches it and nothing is undone
cancel ==
    /\ pc # "idle"
    /\ pc' = "idle"
    /\ result' = "CancelledError"
    /\ rd' = <<>>
    /\ UNCHANGED <<state, connected, call, arg, log, pre, ret, parked>>

----------------------------------------------------------------------------
(* The driver client *)

Next ==
    \/ connect
    \/ disconnect
    \/ link_lost
    \/ power_on_write_power_on
    \/ power_on_sleep
    \/ power_on_write_white_mode
    \/ power_on_write_white
    \/ power_off_write_white_mode
    \/ power_off_sleep_186
    \/ power_off_write_white
    \/ power_off_sleep_190
    \/ power_off_write_rgb
    \/ power_off_sleep_192
    \/ power_off_write_power_off
    \/ set_rgb_mode
    \/ set_white_mode
    \/ set_rgb_color_write_rgb
    \/ set_rgb_color_sleep_241
    \/ set_rgb_color_set_rgb_mode
    \/ set_rgb_color_sleep_245
    \/ set_rgb_color_write_power_on
    \/ set_rgb_color_sleep_250
    \/ set_white_color_write_white
    \/ set_white_color_sleep_275
    \/ set_white_color_set_white_mode
    \/ set_white_color_sleep_279
    \/ set_white_color_write_power_on
    \/ set_white_color_sleep_284
    \/ read_state
    \/ refresh_state
    \/ read_state_read_rgb
    \/ read_state_read_white
    \/ cancel

Spec == Init /\ [][Next]_vars

----------------------------------------------------------------------------
(* LampsterClient of the standalone library (lampster/client.py) *)

\* _write_mode(mode): ConnectionError without a link, else a write without
\* response to the mode characteristic, CommandError if it raises
lib_write_mode(l, mode, ok) ==
    IF ~connected THEN [exc |-> "ConnectionError", log |-> l]
    ELSE LET w == write_gatt_char(l, CHAR_MODE, <<mode>>, FALSE, ok)
         IN  [exc |-> IF w.exc = "none" THEN "none" ELSE "CommandError",
              log |-> w.log]

\* power_on, lines 116-125
lib_power_on ==
    /\ Enter("power_on", None)
    /\ \E ok \in BOOLEAN :
        LET w == lib_write_mode(<<>>, MODE_POWER_ON, ok)
        IN  /\ log' = w.log
            /\ IF w.exc = "none"
                 THEN /\ state' = [state EXCEPT !.is_on = TRUE]
                      /\ Return
                 ELSE /\ state' = state
                      /\ Raise(w.exc)
    /\ UNCHANGED <<connected, rd, parked>>

\* power_off, lines 127-137
lib_power_off ==
    /\ Enter("power_off", None)
    /\ \E ok \in BOOLEAN :
        LET w == lib_write_mode(<<>>, MODE_POWER_OFF, ok)
        IN  /\ log' = w.log
            /\ IF w.exc = "none"
                 THEN /\ state' = [state EXCEPT !.is_on = FALSE, !.mode = "off"]
                      /\ Return
                 ELSE /\ state' = state
                      /\ Raise(w.exc)
    /\ UNCHANGED <<connected, rd, parked>>

\* set_rgb_mode, lines 139-148
lib_set_rgb_mode ==
    /\ Enter("set_rgb_mode", None)
    /\ \E ok \in BOOLEAN :
        LET w == lib_write_mode(<<>>, MODE_RGB, ok)
        IN  /\ log' = w.log
            /\ IF w.exc = "none"
                 THEN /\ state' = [state EXCEPT !.mode = "rgb"]
                      /\ Return
                 ELSE /\ state' = state
                      /\ Raise(w.exc)
    /\ UNCHANGED <<connected, rd, parked>>

\* set_white_mode, lines 150-159
lib_set_white_mode ==
    /\ Enter("set_white_mode", None)
    /\ \E ok \in BOOLEAN :
        LET w == lib_write_mode(<<>>, MODE_WHITE, ok)
        IN  /\ log' = w.log
            /\ IF w.exc = "none"
                 THEN /\ state' = [state EXCEPT !.mode = "white"]
                      /\ Return
                 ELSE /\ state' = state
                      /\ Raise(w.exc)
    /\ UNCHANGED <<connected, rd, parked>>

\* set_rgb_color, lines 171-176: link check, then await self.set_rgb_mode(),
\* which writes MODE=MODE_RGB and on success sets self._state.mode
lib_set_rgb_color_set_rgb_mode ==
    /\ \E color \in RGBInputs :
        /\ Enter("set_rgb_color", color)
        /\ IF ~connected
             THEN log' = <<>> /\ state' = state /\ Raise("ConnectionError")
             ELSE \E ok \in BOOLEAN :
                    LET w == lib_write_mode(<<>>, MODE_RGB, ok)
                    IN  /\ log' = w.log
                        /\ IF w.exc = "none"
                             THEN /\ state' = [state EXCEPT !.mode = "rgb"]
                                  /\ Goto("set_rgb_color_write_rgb")
                             ELSE /\ state' = state
                                  /\ Raise("CommandError")
    /\ UNCHANGED <<connected, rd, parked>>

\* set_rgb_color, lines 179-184: the colour bytes without response, then the
\* remembered colour is set
lib_set_rgb_color_write_rgb ==
    /\ pc = "set_rgb_color_write_rgb"
    /\ \E ok \in BOOLEAN :
        LET w == write_gatt_char(log, CHAR_RGB, rgb_to_bytes(arg), FALSE, ok)
        IN  /\ log' = w.log
            /\ IF w.exc = "none"
                 THEN /\ state' = [state EXCEPT !.rgb_color = arg]
                      /\ Return
                 ELSE /\ state' = state
                      /\ Raise("CommandError")
    /\ UNCHANGED <<connected, call, arg, pre, rd, ret, parked>>

\* set_white_color, lines 196-201: link check, then await self.set_white_mode(),
\* which writes MODE=MODE_WHITE and on success sets self._state.mode
lib_set_white_color_set_white_mode ==
    /\ \E color \in WhiteInputs :
        /\ Enter("set_white_color", color)
        /\ IF ~connected
             THEN log' = <<>> /\ state' = state /\ Raise("ConnectionError")
             ELSE \E ok \in BOOLEAN :
                    LET w == lib_write_mode(<<>>, MODE_WHITE, ok)
                    IN  /\ log' = w.log
                        /\ IF w.exc = "none"
                             THEN /\ state' = [state EXCEPT !.mode = "white"]
                                  /\ Goto("set_white_color_write_white")
                             ELSE /\ state' = state
                                  /\ Raise("CommandError")
    /\ UNCHANGED <<connected, rd, parked>>

\* set_white_color, lines 204-209: the colour bytes without response, then the
\* remembered colour is set
lib_set_white_color_write_white ==
    /\ pc = "set_white_color_write_white"
    /\ \E ok \in BOOLEAN :
        LET w == write_gatt_char(log, CHAR_WHITE, white_to_bytes(arg), FALSE, ok)
        IN  /\ log' = w.log
            /\ IF w.exc = "none"
                 THEN /\ state' = [state EXCEPT !.white_color = arg]
                      /\ Return
                 ELSE /\ state' = state
                      /\ Raise("CommandError")
    /\ UNCHANGED <<connected, call, arg, pre, rd, ret, parked>>

LibNext ==
    \/ connect
    \/ disconnect
    \/ link_lost
    \/ lib_power_on
    \/ lib_power_off
    \/ lib_set_rgb_mode
    \/ lib_set_white_mode
    \/ lib_set_rgb_color_set_rgb_mode
    \/ lib_set_rgb_color_write_rgb
    \/ lib_set_white_color_set_white_mode
    \/ lib_set_white_color_write_white

LibSpec == Init /\ [][LibNext]_vars

----------------------------------------------------------------------------
(* Two callers of one driver client *)

\* the coroutine in flight is suspended at its await and the event loop
\* resumes the other caller; nothing in the client makes a caller wait for
\* the call of another
switch ==
    /\ parked' = [pc |-> pc, call |-> call, arg |-> arg, log |-> log,
                  pre |-> pre, result |-> result, rd |-> rd, ret |-> ret]
    /\ pc' = parked.pc
    /\ call' = parked.call
    /\ arg' = parked.arg
    /\ log' = parked.log
    /\ pre' = parked.pre
    /\ result' = parked.result
    /\ rd' = parked.rd
    /\ ret' = parked.ret
    /\ UNCHANGED <<state, connected>>

ConcNext ==
    \/ connect
    \/ power_off_write_white_mode
    \/ power_off_sleep_186
    \/ power_off_write_white
    \/ power_off_sleep_190
    \/ power_off_write_rgb
    \/ power_off_sleep_192
    \/ power_off_write_power_off
    \/ set_rgb_color_write_rgb
    \/ set_rgb_color_sleep_241
    \/ set_rgb_color_set_rgb_mode
    \/ set_rgb_color_sleep_245
    \/ set_rgb_color_write_power_on
    \/ set_rgb_color_sleep_250
    \/ switch

ConcSpec == Init /\ [][ConcNext]_vars

----------------------------------------------------------------------------
(* Two client instances *)

\* In InstSpec parked is the other LampsterClient instance: its own _state
\* and link, and its call in flight.  state, connected, pc, ... are those of
\* the instance whose coroutine runs.

\* a second LampsterClient after __init__
IdleInstance ==
    [pc |-> "idle", call |-> "none", arg |-> None, log |-> <<>>,
     pre |-> LampState(FALSE, "off", None, None), result |-> "none",
     rd |-> <<>>, ret |-> None,
     state |-> LampState(FALSE, "off", None, None), connected |-> FALSE]

InstInit ==
    /\ state = LampState(FALSE, "off", None, None)
    /\ connected = FALSE
    /\ pc = "idle"
    /\ call = "none"
    /\ arg = None
    /\ log = <<>>
    /\ pre = LampState(FALSE, "off", None, None)
    /\ result = "none"
    /\ rd = <<>>
    /\ ret = None
    /\ parked = IdleInstance

\* the event loop runs a coroutine of the other instance (or its caller
\* starts one)
switch_instance ==
    /\ parked' = [pc |-> pc, call |-> call, arg |-> arg, log |-> log,
                  pre |-> pre, result |-> result, rd |-> rd, ret |-> ret,
                  state |-> state, connected |-> connected]
    /\ pc' = parked.pc
    /\ call' = parked.call
    /\ arg' = parked.arg
    /\ log' = parked.log
    /\ pre' = parked.pre
    /\ result' = parked.result
    /\ rd' = parked.rd
    /\ ret' = parked.ret
    /\ state' = parked.state
    /\ connected' = parked.connected

InstNext ==
    \/ connect
    \/ link_lost
    \/ power_on_write_power_on
    \/ power_on_sleep
    \/ power_on_write_white_mode
    \/ power_on_write_white
    \/ set_rgb_mode
    \/ switch_instance

InstSpec == InstInit /\ [][InstNext]_vars

----------------------------------------------------------------------------
(* LampsterCoordinator: one connection per command or poll *)

\* While the coordinator awaits its client, its own coroutine is the
\* suspended one: parked is the frame of async_command / _async_poll (pc
\* "in_connection" inside the async with block, arg the method name, ret the
\* coordinator's data), and pc, call, log, result are those of the client
\* made for this connection.  The coordinator's _client field is only ever
\* assigned and is not tracked.

\* method names passed to async_command: those light.py passes, and one
\* the client does not have
MethodNames == {"power_on", "power_off", "set_rgb_color", "set_white_color",
                "toggle"}

ClientMethods == {"power_on", "power_off", "set_rgb_color", "set_white_color"}

InBlock(c) == parked.pc = "in_connection" /\ parked.call = c

\* the coordinator call c raises exc before a connection exists
coordinator_raise(c, a, exc) ==
    /\ parked' = [parked EXCEPT !.pc = "idle", !.call = c, !.arg = a,
                                !.result = exc]
    /\ UNCHANGED <<state, connected, pc, call, arg, log, pre, result, rd, ret>>

\* faulty variant of the connection step: the client of the previous
\* connection, with its local state, is used again
coordinator_connected_keeps_client(c, a) ==
    /\ parked' = [parked EXCEPT !.pc = "in_connection", !.call = c, !.arg = a,
                                !.result = "pending"]
    /\ connected' = TRUE
    /\ state' = state
    /\ pc' = "idle"
    /\ call' = "none"
    /\ arg' = None
    /\ log' = <<>>
    /\ pre' = state
    /\ result' = "none"
    /\ rd' = <<>>
    /\ ret' = None

\* establish_connection succeeded: LampsterClient(self._address) is made
\* around the connected BleakClient
coordinator_connected(c, a) ==
    /\ parked' = [parked EXCEPT !.pc = "in_connection", !.call = c, !.arg = a,
                                !.result = "pending"]
    /\ connected' = TRUE
    /\ state' = LampState(FALSE, "off", None, None)
    /\ pc' = "idle"
    /\ call' = "none"
    /\ arg' = None
    /\ log' = <<>>
    /\ pre' = LampState(FALSE, "off", None, None)
    /\ result' = "none"
    /\ rd' = <<>>
    /\ ret' = None

\* async_command, lines 111-138: no service info or no BLE device raises
\* ConnectionError; else establish_connection is awaited, which raises or
\* yields a connected client
async_command_enter ==
    /\ pc = "idle" /\ parked.pc = "idle"
    /\ \E method_name \in MethodNames :
        \/ coordinator_raise("async_command", method_name, "ConnectionError")
        \/ coordinator_raise("async_command", method_name, "BleakError")
        \/ coordinator_connected("async_command", method_name)

\* _async_poll, lines 67-89
async_poll_enter ==
    /\ pc = "idle" /\ parked.pc = "idle"
    /\ \/ coordinator_raise("_async_poll", "read_state", "ConnectionError")
       \/ coordinator_raise("_async_poll", "read_state", "BleakError")
       \/ coordinator_connected("_async_poll", "read_state")

\* async_command, lines 141-142: getattr(client, method_name) and its call
MethodToStart(name) ==
    InBlock("async_command") /\ call = "none" /\ parked.arg = name

async_command_power_on == MethodToStart("power_on") /\ power_on_write_power_on

async_command_power_off ==
    MethodToStart("power_off") /\ power_off_write_white_mode

async_command_set_rgb_color ==
    MethodToStart("set_rgb_color") /\ set_rgb_color_write_rgb

async_command_set_white_color ==
    MethodToStart("set_white_color") /\ set_white_color_write_white

\* async_command, line 145: the command returned, the state is read back
async_command_read_back ==
    /\ InBlock("async_command")
    /\ call = parked.arg /\ result = "ok"
    /\ read_state

\* _async_poll, line 92
async_poll_read_state ==
    /\ InBlock("_async_poll")
    /\ call = "none"
    /\ read_state

\* what leaves the async with block of async_command: AttributeError of
\* getattr, the exception of the command or of the read-back, or nothing
BlockOutcome ==
    IF call = "none" THEN "AttributeError" ELSE result

\* faulty variant of the end of async_command: when the read-back fails the
\* client's optimistic state is published in its place
async_command_exit_publishes_optimistic ==
    /\ InBlock("async_command")
    /\ pc = "idle"
    /\ \/ call = "none" /\ parked.arg \notin ClientMethods
       \/ call = parked.arg /\ result # "ok"
       \/ call = "read_state"
    /\ connected' = FALSE
    /\ parked' = [parked EXCEPT
                    !.pc = "idle",
                    !.result = BlockOutcome,
                    !.ret = IF BlockOutcome = "ok" THEN ret
                            ELSE IF call = "read_state" THEN state ELSE @]
    /\ UNCHANGED <<state, pc, call, arg, log, pre, result, rd, ret>>

\* faulty variant of the end of async_command: the connection is closed
\* only when the block ends normally
async_command_exit_leaks_on_error ==
    /\ InBlock("async_command")
    /\ pc = "idle"
    /\ \/ call = "none" /\ parked.arg \notin ClientMethods
       \/ call = parked.arg /\ result # "ok"
       \/ call = "read_state"
    /\ connected' = IF BlockOutcome = "ok" THEN FALSE ELSE connected
    /\ parked' = [parked EXCEPT
                    !.pc = "idle",
                    !.result = BlockOutcome,
                    !.ret = IF BlockOutcome = "ok" THEN ret ELSE @]
    /\ UNCHANGED <<state, pc, call, arg, log, pre, result, rd, ret>>

\* async_command, lines 129-150: the async with block is left, by
\* AttributeError of getattr, by the exception of the command or of the
\* read-back, or after async_set_updated_data(state); leaving it closes the
\* connection, and the exception is raised again
async_command_exit ==
    /\ InBlock("async_command")
    /\ pc = "idle"
    /\ \/ call = "none" /\ parked.arg \notin ClientMethods
       \/ call = parked.arg /\ result # "ok"
       \/ call = "read_state"
    /\ connected' = FALSE
    /\ parked' = [parked EXCEPT
                    !.pc = "idle",
                    !.result = BlockOutcome,
                    !.ret = IF BlockOutcome = "ok" THEN ret ELSE @]
    /\ UNCHANGED <<state, pc, call, arg, log, pre, result, rd, ret>>

\* _async_poll, lines 78-98: read_state returned or raised; leaving the
\* block closes the connection; the state is returned and becomes the
\* coordinator's data, or the exception is raised again
async_poll_exit ==
    /\ InBlock("_async_poll")
    /\ pc = "idle"
    /\ call = "read_state"
    /\ connected' = FALSE
    /\ parked' = [parked EXCEPT
                    !.pc = "idle",
                    !.result = result,
                    !.ret = IF result = "ok" THEN ret ELSE @]
    /\ UNCHANGED <<state, pc, call, arg, log, pre, result, rd, ret>>

CoordNext ==
    \/ async_command_enter
    \/ async_poll_enter
    \/ async_command_power_on
    \/ async_command_power_off
    \/ async_command_set_rgb_color
    \/ async_command_set_white_color
    \/ power_on_sleep
    \/ power_on_write_white_mode
    \/ power_on_write_white
    \/ power_off_sleep_186
    \/ power_off_write_white
    \/ power_off_sleep_190
    \/ power_off_write_rgb
    \/ power_off_sleep_192
    \/ power_off_write_power_off
    \/ set_rgb_color_sleep_241
    \/ set_rgb_color_set_rgb_mode
    \/ set_rgb_color_sleep_245
    \/ set_rgb_color_write_power_on
    \/ set_rgb_color_sleep_250
    \/ set_white_color_sleep_275
    \/ set_white_color_set_white_mode
    \/ set_white_color_sleep_279
    \/ set_white_color_write_power_on
    \/ set_white_color_sleep_284
    \/ async_command_read_back
    \/ async_poll_read_state
    \/ read_state_read_rgb
    \/ read_state_read_white
    \/ async_command_exit
    \/ async_poll_exit
    \/ link_lost
    \/ cancel

CoordSpec == Init /\ [][CoordNext]_vars

----------------------------------------------------------------------------
(* A poll that overlaps a command *)

\* In OverlapSpec the coordinator runs async_command("power_on") and
\* _async_poll at once, each over its own connection.  pc, call, log, ...
\* are those of the command and its client; parked is the poll (rd the
\* bytes it has read) and keeps the coordinator's data in ret, as in
\* CoordSpec.  log is what reaches the lamp, in order, and the lamp returns
\* on a read the last value written.

\* the value the lamp holds in a characteristic after the writes of l; a
\* lamp that is off to begin with
register(l, char) ==
    LET w == SelectSeq(l, LAMBDA e : e.kind = "write" /\ e.char = char /\ e.ok)
    IN  IF w # <<>> THEN w[Len(w)].val
        ELSE IF char = CHAR_MODE THEN <<MODE_POWER_OFF>>
        ELSE IF char = CHAR_RGB THEN <<0, 0, 0>>
        ELSE <<0, 0>>

\* read_state, lines 311-313: the order of the reads
read_order == <<CHAR_MODE, CHAR_RGB, CHAR_WHITE>>

\* async_command, lines 111-138
overlap_command_enter ==
    /\ pc = "idle" /\ call = "none"
    /\ connected' = TRUE
    /\ call' = "async_command"
    /\ result' = "pending"
    /\ UNCHANGED <<state, pc, arg, log, pre, rd, ret, parked>>

\* async_command, lines 141-142, with method_name = "power_on"
overlap_command_power_on ==
    /\ call = "async_command" /\ result = "pending"
    /\ power_on_write_power_on

\* async_command, lines 145-146, and read_state, lines 311-349: one read of
\* the read-back; after the third the state is decoded and
\* async_set_updated_data(state) publishes it
overlap_command_read ==
    /\ \/ pc = "idle" /\ call = "power_on" /\ result = "ok"
       \/ pc = "overlap_command_read"
    /\ call' = "read_state"
    /\ LET char == read_order[Len(rd) + 1]
           val == register(log, char)
       IN  \E ok \in BOOLEAN :
            LET r == read_gatt_char(log, char, val, ok)
            IN  /\ log' = r.log
                /\ IF r.exc # "none"
                     THEN /\ rd' = <<>>
                          /\ Raise("CommandError")
                          /\ UNCHANGED <<ret, parked>>
                     ELSE IF Len(rd) < 2
                       THEN /\ rd' = Append(rd, val)
                            /\ Goto("overlap_command_read")
                            /\ UNCHANGED <<ret, parked>>
                       ELSE IF parse_raises(rd[2], val)
                         THEN /\ rd' = <<>>
                              /\ Raise("CommandError")
                              /\ UNCHANGED <<ret, parked>>
                         ELSE /\ rd' = <<>>
                              /\ ret' = parse_state(rd[1], rd[2], val)
                              /\ parked' = [parked EXCEPT !.ret = ret']
                              /\ Return
    /\ UNCHANGED <<state, connected, arg, pre>>

\* async_command, lines 129-150: the block is left, the connection closed
overlap_command_exit ==
    /\ pc = "idle"
    /\ \/ call = "power_on" /\ result # "ok"
       \/ call = "read_state"
    /\ connected' = FALSE
    /\ call' = "async_command"
    /\ UNCHANGED <<state, pc, arg, log, pre, result, rd, ret, parked>>

\* _async_poll, lines 67-89
overlap_poll_enter ==
    /\ parked.pc = "idle" /\ parked.call = "none"
    /\ parked' = [parked EXCEPT !.pc = "poll_read", !.call = "_async_poll",
                                !.result = "pending"]
    /\ UNCHANGED <<state, connected, pc, call, arg, log, pre, result, rd, ret>>

\* _async_poll, line 92, and read_state, lines 311-349: one read of the poll
overlap_poll_read ==
    /\ parked.pc = "poll_read"
    /\ LET char == read_order[Len(parked.rd) + 1]
           val == register(log, char)
       IN  \E ok \in BOOLEAN :
            /\ log' = Append(log, ReadEv(char, IF ok THEN val ELSE <<>>, ok))
            /\ parked' =
                 IF ~ok
                   THEN [parked EXCEPT !.pc = "poll_exit", !.rd = <<>>,
                                       !.result = "CommandError"]
                   ELSE [parked EXCEPT
                           !.rd = Append(@, val),
                           !.pc = IF Len(parked.rd) < 2 THEN "poll_read"
                                                        ELSE "poll_exit"]
    /\ UNCHANGED <<state, connected, pc, call, arg, pre, result, rd, ret>>

\* _async_poll, lines 93-98: the block is left; the state read is returned
\* and becomes the coordinator's data, or the exception is raised again
overlap_poll_exit ==
    /\ parked.pc = "poll_exit"
    /\ parked' =
         IF parked.result = "pending"
           THEN [parked EXCEPT
                   !.pc = "idle", !.result = "ok", !.rd = <<>>,
                   !.ret = parse_state(parked.rd[1], parked.rd[2], parked.rd[3])]
           ELSE [parked EXCEPT !.pc = "idle"]
    /\ UNCHANGED <<state, connected, pc, call, arg, log, pre, result, rd, ret>>

OverlapNext ==
    \/ overlap_command_enter
    \/ overlap_command_power_on
    \/ power_on_sleep
    \/ power_on_write_white_mode
    \/ power_on_write_white
    \/ overlap_command_read
    \/ overlap_command_exit
    \/ overlap_poll_enter
    \/ overlap_poll_read
    \/ overlap_poll_exit

OverlapSpec == Init /\ [][OverlapNext]_vars

----------------------------------------------------------------------------
(* The light entity *)

\* In LightSpec state is coordinator.data (None before the first read), rd
\* the entity's attributes, arg the keyword arguments of the last
\* async_turn_on, pre the brightness it used, ret the command it passed to
\* the coordinator and result how the call ended.

MIN_KELVIN == 2700

MAX_KELVIN == 6500

\* int(x) of a double x >= 0 computed from whole numbers, whose exact value
\* is num / den.  The rounding of the double operations is far smaller than
\* 1 / den, so int(x) is the whole part of num / den, except that when
\* num / den is a whole number x may lie just below it (int(100 * 2.55)
\* is 254).
int_of(num, den) ==
    IF num > 0 /\ num % den = 0
      THEN {num \div den, (num \div den) - 1}
      ELSE {num \div den}

\* the attributes of a new entity; None and False are written FALSE, None
\* and 0 are written 0: the code only tests them with "not" and "or"
NoAttrs ==
    [is_on |-> FALSE, color_mode |-> "none", rgb_color |-> None,
     color_temp_kelvin |-> 0, brightness |-> 0]

max3(t) ==
    IF t[1] >= t[2] /\ t[1] >= t[3] THEN t[1]
    ELSE IF t[2] >= t[3] THEN t[2] ELSE t[3]

\* _update_from_coordinator, lines 75-110: the attributes after it
update_from_coordinator(attrs, data) ==
    IF data = None THEN {attrs}
    ELSE IF data.mode = "rgb" /\ data.rgb_color # None
      THEN {[attrs EXCEPT !.is_on = data.is_on,
                          !.color_mode = "rgb",
                          !.rgb_color = <<r, g, b>>,
                          !.brightness = max3(<<r, g, b>>)] :
              r \in int_of(data.rgb_color.red * 255, 100),
              g \in int_of(data.rgb_color.green * 255, 100),
              b \in int_of(data.rgb_color.blue * 255, 100)}
    ELSE IF data.mode = "white" /\ data.white_color # None
      THEN LET warm == data.white_color.warm
               cold == data.white_color.cold
               total == warm + cold
           IN  IF total > 0
                 THEN {[attrs EXCEPT !.is_on = data.is_on,
                                     !.color_mode = "color_temp",
                                     !.color_temp_kelvin = MIN_KELVIN + t,
                                     !.brightness = b] :
                         t \in int_of(cold * (MAX_KELVIN - MIN_KELVIN), total),
                         b \in int_of(total * 255, 100)}
                 ELSE {[attrs EXCEPT !.is_on = data.is_on,
                                     !.color_mode = "color_temp",
                                     !.color_temp_kelvin = 3500,
                                     !.brightness = 0]}
    ELSE {[attrs EXCEPT !.is_on = data.is_on]}

\* async_turn_on, line 116
brightness_of(kwargs, attrs) ==
    IF kwargs.brightness # <<>> THEN kwargs.brightness[1]
    ELSE IF attrs.brightness # 0 THEN attrs.brightness
    ELSE 255

\* async_turn_on, lines 123-126 and 152-155: the channels scaled to 0-100
scale_rgb(rgb, brightness) ==
    {<<r, g, b>> :
       r \in int_of(rgb[1] * 100 * brightness, 255 * 255),
       g \in int_of(rgb[2] * 100 * brightness, 255 * 255),
       b \in int_of(rgb[3] * 100 * brightness, 255 * 255)}

\* faulty variant: the brightness is used as it is, on the 0-255 scale
brightness_0_100_unscaled(brightness) == {brightness}

\* async_turn_on, lines 141 and 165
brightness_0_100(brightness) == int_of(brightness * 100, 255)

\* async_turn_on, lines 137-143 and 161-167: warm and cold for a
\* temperature
kelvin_to_white(kelvin, brightness) ==
    UNION {{<<w, c>> :
              w \in int_of((MAX_KELVIN - kelvin) * b100,
                           MAX_KELVIN - MIN_KELVIN),
              c \in int_of((kelvin - MIN_KELVIN) * b100,
                           MAX_KELVIN - MIN_KELVIN)} :
             b100 \in brightness_0_100(brightness)}

\* async_turn_on, lines 118-174: the method it calls on the coordinator and
\* the channels it passes to RGBColor / WhiteColor; <<>> for no command
turn_on_command(kwargs, attrs) ==
    LET brightness == brightness_of(kwargs, attrs)
    IN  IF kwargs.rgb # <<>>
          THEN {<<"set_rgb_color", t>> : t \in scale_rgb(kwargs.rgb, brightness)}
        ELSE IF kwargs.kelvin # <<>>
          THEN {<<"set_white_color", t>> :
                  t \in kelvin_to_white(kwargs.kelvin[1], brightness)}
        ELSE IF kwargs.brightness # <<>> /\ attrs.color_mode # "none"
          THEN IF attrs.color_mode = "rgb"
                 THEN {<<"set_rgb_color", t>> :
                         t \in scale_rgb(attrs.rgb_color, brightness)}
                 ELSE {<<"set_white_color", t>> :
                         t \in kelvin_to_white(
                                 IF attrs.color_temp_kelvin # 0
                                   THEN attrs.color_temp_kelvin ELSE 3500,
                                 brightness)}
        ELSE IF ~attrs.is_on THEN {<<"power_on">>}
        ELSE {<<>>}

\* what the coordinator has read from the lamp
LightData ==
    {LampState(FALSE, "off", RGBColor(0, 0, 0), WhiteColor(0, 0)),
     LampState(TRUE, "white", RGBColor(0, 0, 0), WhiteColor(50, 0)),
     LampState(TRUE, "white", RGBColor(0, 0, 0), WhiteColor(100, 100)),
     LampState(TRUE, "rgb", RGBColor(100, 0, 50), WhiteColor(0, 0)),
     LampState(TRUE, "rgb", None, None)}

\* the service calls: rgb_color, brightness and color_temp_kelvin, each
\* given or not
TurnOnKwargs ==
    [rgb : {<<>>, <<255, 0, 128>>, <<255, 255, 255>>},
     brightness : {<<>>, <<0>>, <<97>>, <<255>>},
     kelvin : {<<>>, <<2800>>, <<4600>>, <<6500>>}]

\* async_turn_on, lines 112-179: the colour is built, which raises
\* ValueError out of range, and the command is awaited
async_turn_on ==
    \E kwargs \in TurnOnKwargs :
      \E cmd \in turn_on_command(kwargs, rd) :
        /\ call' = "async_turn_on"
        /\ arg' = kwargs
        /\ pre' = brightness_of(kwargs, rd)
        /\ IF /\ Len(cmd) = 2
              /\ \/ cmd[1] = "set_rgb_color"
                      /\ ~RGBColorOk(cmd[2][1], cmd[2][2], cmd[2][3])
                 \/ cmd[1] = "set_white_color"
                      /\ ~WhiteColorOk(cmd[2][1], cmd[2][2])
             THEN /\ result' = "ValueError"
                  /\ ret' = <<>>
             ELSE /\ ret' = IF Len(cmd) < 2 THEN cmd
                            ELSE IF cmd[1] = "set_rgb_color"
                              THEN <<cmd[1],
                                     RGBColor(cmd[2][1], cmd[2][2], cmd[2][3])>>
                              ELSE <<cmd[1], WhiteColor(cmd[2][1], cmd[2][2])>>
                  /\ result' \in IF cmd = <<>> THEN {"ok"}
                                 ELSE {"ok", "CommandError"}
        /\ UNCHANGED <<state, connected, pc, log, rd, parked>>

\* _handle_coordinator_update, lines 70-73: the coordinator has new data
handle_coordinator_update ==
    \E data \in LightData :
      /\ state' = data
      /\ rd' \in update_from_coordinator(rd, data)
      /\ UNCHANGED <<connected, pc, call, arg, log, pre, result, ret, parked>>

\* __init__, lines 51-67
LightInit ==
    /\ state \in LightData \cup {None}
    /\ rd \in update_from_coordinator(NoAttrs, state)
    /\ connected = FALSE
    /\ pc = "idle"
    /\ call = "none"
    /\ arg = None
    /\ log = <<>>
    /\ pre = None
    /\ result = "none"
    /\ ret = None
    /\ parked = IdleCaller

LightNext ==
    \/ async_turn_on
    \/ handle_coordinator_update

LightSpec == LightInit /\ [][LightNext]_vars

----------------------------------------------------------------------------
(* The decoding of read_state, on every byte *)

\* the three characteristics have been read: the mode byte is any byte
DecodeInit ==
    /\ state = LampState(FALSE, "off", None, None)
    /\ connected = TRUE
    /\ pc = "read_state_decode"
    /\ call = "read_state"
    /\ arg = None
    /\ log = <<>>
    /\ pre = LampState(FALSE, "off", None, None)
    /\ result = "pending"
    /\ rd \in {<<(<<b>>), rgb_bytes, white_bytes>> :
                 b \in 0..255, rgb_bytes \in RGBReads, white_bytes \in WhiteReads}
    /\ ret = None
    /\ parked = IdleCaller

\* read_state, lines 315-349: the bytes read are decoded; an exception of
\* the colour constructors becomes CommandError
read_state_decode ==
    /\ pc = "read_state_decode"
    /\ IF ~parse_raises(rd[2], rd[3])
         THEN /\ ret' = parse_state(rd[1], rd[2], rd[3])
              /\ Return
         ELSE /\ ret' = None
              /\ Raise("CommandError")
    /\ UNCHANGED <<state, connected, call, arg, log, pre, rd, parked>>

DecodeNext == read_state_decode

DecodeSpec == DecodeInit /\ [][DecodeNext]_vars

----------------------------------------------------------------------------
(* Poll reconciliation (coordinator.py) *)

\* time is counted in ticks
TicksPerSecond == 10

\* longest time since the last poll that is tried, in ticks
MaxElapsed == 400

\* advertisements passed to _needs_poll
ServiceInfos == {"Lampster", "Lamp-2"}

\* faulty variant of _needs_poll: 30 seconds already trigger a poll
needs_poll_inclusive(service_info, seconds_since_last_poll) ==
    IF seconds_since_last_poll = None THEN TRUE
    ELSE seconds_since_last_poll[1] >= 30 * TicksPerSecond

\* _needs_poll(service_info, seconds_since_last_poll); the time is None, or
\* <<ticks>>
needs_poll(service_info, seconds_since_last_poll) ==
    IF seconds_since_last_poll = None THEN TRUE
    ELSE seconds_since_last_poll[1] > 30 * TicksPerSecond

\* an advertisement arrives some time after the last poll, or before any
\* poll, with the lamp last commanded on or off
PollInit ==
    /\ state \in {LampState(FALSE, "off", None, None),
                  LampState(TRUE, "white", None, WhiteColor(50, 0))}
    /\ connected = FALSE
    /\ pc = "idle"
    /\ call = "none"
    /\ arg \in {None} \cup {<<t>> : t \in 0..MaxElapsed}
    /\ log = <<>>
    /\ pre = state
    /\ result = "none"
    /\ rd \in ServiceInfos
    /\ ret = None
    /\ parked = IdleCaller

\* the coordinator asks _needs_poll
call_needs_poll ==
    /\ call = "none"
    /\ call' = "_needs_poll"
    /\ ret' = needs_poll(rd, arg)
    /\ result' = "ok"
    /\ UNCHANGED <<state, connected, pc, arg, log, pre, rd, parked>>

PollNext == call_needs_poll

PollSpec == PollInit /\ [][PollNext]_vars

----------------------------------------------------------------------------
(* Construction of colours (models.py) *)

\* channel values the constructors are tried on
ChannelInputs == {-1, 0, 1, 50, 99, 100, 101, 255}

ColourInit ==
    /\ state = LampState(FALSE, "off", None, None)
    /\ connected = FALSE
    /\ pc = "idle"
    /\ call = "none"
    /\ arg \in {<<r, g, b>> : r \in ChannelInputs, g \in ChannelInputs,
                              b \in ChannelInputs}
              \cup {<<w, c>> : w \in ChannelInputs, c \in ChannelInputs}
    /\ log = <<>>
    /\ pre = LampState(FALSE, "off", None, None)
    /\ result = "none"
    /\ rd = <<>>
    /\ ret = None
    /\ parked = IdleCaller

\* RGBColor(red, green, blue): the dataclass is built, then __post_init__
\* raises ValueError on the first channel outside the range
construct_RGBColor ==
    /\ call = "none"
    /\ Len(arg) = 3
    /\ call' = "RGBColor"
    /\ IF RGBColorOk(arg[1], arg[2], arg[3])
         THEN ret' = RGBColor(arg[1], arg[2], arg[3]) /\ result' = "ok"
         ELSE ret' = None /\ result' = "ValueError"
    /\ UNCHANGED <<state, connected, pc, arg, log, pre, rd, parked>>

\* WhiteColor(warm, cold)
construct_WhiteColor ==
    /\ call = "none"
    /\ Len(arg) = 2
    /\ call' = "WhiteColor"
    /\ IF WhiteColorOk(arg[1], arg[2])
         THEN ret' = WhiteColor(arg[1], arg[2]) /\ result' = "ok"
         ELSE ret' = None /\ result' = "ValueError"
    /\ UNCHANGED <<state, connected, pc, arg, log, pre, rd, parked>>

ColourNext ==
    \/ construct_RGBColor
    \/ construct_WhiteColor

ColourSpec == ColourInit /\ [][ColourNext]_vars

----------------------------------------------------------------------------
(* Colours through the wire format *)

\* channel values of the colours sent through to_bytes
ValidChannels == {0, 1, 10, 50, 99, 100}

IsRGB(color) == "red" \in DOMAIN color

\* a colour built by a validated constructor
RoundTripInit ==
    /\ state = LampState(FALSE, "off", None, None)
    /\ connected = FALSE
    /\ pc = "idle"
    /\ call = "none"
    /\ arg \in {RGBColor(r, g, b) : r \in ValidChannels, g \in ValidChannels,
                                   b \in ValidChannels}
              \cup {WhiteColor(w, c) : w \in ValidChannels, c \in ValidChannels}
    /\ log = <<>>
    /\ pre = LampState(FALSE, "off", None, None)
    /\ result = "none"
    /\ rd = <<>>
    /\ ret = None
    /\ parked = IdleCaller

\* color.to_bytes()
colour_to_bytes ==
    /\ call = "none"
    /\ call' = "to_bytes"
    /\ rd' = IF IsRGB(arg) THEN rgb_to_bytes(arg) ELSE white_to_bytes(arg)
    /\ result' = "ok"
    /\ UNCHANGED <<state, connected, pc, arg, log, pre, ret, parked>>

\* read_state, lines 315-349, on those bytes read back from the colour's
\* characteristic
colour_from_bytes ==
    /\ call = "to_bytes"
    /\ call' = "read_state"
    /\ LET rgb_bytes == IF IsRGB(arg) THEN rd ELSE <<>>
           white_bytes == IF IsRGB(arg) THEN <<>> ELSE rd
           mode_bytes == IF IsRGB(arg) THEN <<MODE_RGB>> ELSE <<MODE_WHITE>>
       IN  IF ~parse_raises(rgb_bytes, white_bytes)
             THEN /\ ret' = parse_state(mode_bytes, rgb_bytes, white_bytes)
                  /\ result' = "ok"
             ELSE /\ ret' = None
                  /\ result' = "CommandError"
    /\ UNCHANGED <<state, connected, pc, arg, log, pre, rd, parked>>

RoundTripNext ==
    \/ colour_to_bytes
    \/ colour_from_bytes

RoundTripSpec == RoundTripInit /\ [][RoundTripNext]_vars

----------------------------------------------------------------------------
(* The text of CommandError *)

\* str() of the exception a transport call raises
TransportErrors == {<<"timeout">>, <<"disconnected">>, <<"GATT error 133">>}

\* _write_mode, lines 140-141: CommandError(f"Failed to write mode: {e}")
write_mode_error(e) == <<"Failed to write mode: ">> \o e

\* the transport calls of each write sequence, in order: a mode write goes
\* through _write_mode, a colour write is made directly
StepKinds(op) ==
    CASE op = "power_on" -> <<"mode", "mode", "char">>
      [] op = "power_off" -> <<"mode", "char", "char", "mode">>
      [] op = "set_rgb_color" -> <<"char", "mode", "mode">>
      [] op = "set_white_color" -> <<"char", "mode", "mode">>

\* the except clause of each write sequence (lines 169, 201, 257, 291)
Prefix(op) ==
    CASE op = "power_on" -> "Failed to power on: "
      [] op = "power_off" -> "Failed to power off: "
      [] op = "set_rgb_color" -> "Failed to set RGB color: "
      [] op = "set_white_color" -> "Failed to set white color: "

\* the message of the CommandError that op raises when its n-th transport
\* call raises an exception of text e
command_error(op, n, e) ==
    <<Prefix(op)>> \o (IF StepKinds(op)[n] = "mode" THEN write_mode_error(e)
                                                    ELSE e)

\* an operation is run twice; its m-th transport call fails the first time
\* and its n-th the second time, for the same reason
ErrorInit ==
    /\ state = LampState(FALSE, "off", None, None)
    /\ connected = TRUE
    /\ pc = "idle"
    /\ call = "none"
    /\ arg \in UNION {[op : {o}, m : DOMAIN StepKinds(o), n : DOMAIN StepKinds(o),
                       cause : TransportErrors] :
                      o \in {"power_on", "power_off", "set_rgb_color",
                             "set_white_color"}}
    /\ log = <<>>
    /\ pre = LampState(FALSE, "off", None, None)
    /\ result = "none"
    /\ rd = <<>>
    /\ ret = <<>>
    /\ parked = IdleCaller

\* the first run raises
first_failure ==
    /\ Len(ret) = 0
    /\ call' = arg.op
    /\ result' = "CommandError"
    /\ ret' = <<command_error(arg.op, arg.m, arg.cause)>>
    /\ UNCHANGED <<state, connected, pc, arg, log, pre, rd, parked>>

\* the second run raises
second_failure ==
    /\ Len(ret) = 1
    /\ result' = "CommandError"
    /\ ret' = Append(ret, command_error(arg.op, arg.n, arg.cause))
    /\ UNCHANGED <<state, connected, pc, call, arg, log, pre, rd, parked>>

ErrorNext ==
    \/ first_failure
    \/ second_failure

ErrorSpec == ErrorInit /\ [][ErrorNext]_vars

----------------------------------------------------------------------------
(* Discovery *)

\* constants.py: DEVICE_NAME_PREFIX = "Lamp"; names are sequences of
\* characters
DEVICE_NAME_PREFIX == <<"L", "a", "m", "p">>

\* the devices in range: address and advertised name (None if no name)
Devices ==
    {[address |-> "AA:01", name |-> <<"L", "a", "m", "p", "s", "t", "e", "r">>],
     [address |-> "AA:02", name |-> <<"M", "y", " ", "L", "a", "m", "p">>],
     [address |-> "AA:03", name |-> <<"l", "a", "m", "p">>],
     [address |-> "AA:04", name |-> None]}

\* the scans a full scan may return: the devices heard, in some order
ScanResults ==
    {<<>>} \cup {<<d>> : d \in Devices}
           \cup {<<d, e>> : d \in Devices, e \in Devices}

\* longest scan timeout that is tried, in sleeps of 0.1 s
MaxScanTicks == 3

\* DEVICE_NAME_PREFIX in name
Contains(name, part) ==
    \E i \in 1..(Len(name) - Len(part) + 1) :
        SubSeq(name, i, i + Len(part) - 1) = part

\* device.name and DEVICE_NAME_PREFIX in device.name
name_matches(device) ==
    device.name # None /\ Contains(device.name, DEVICE_NAME_PREFIX)

\* [d for d in devices if d.name and DEVICE_NAME_PREFIX in d.name]
lampster_filter(devices) == SelectSeq(devices, name_matches)

\* lines 91-95 (library client: 64-68): an empty list raises DiscoveryError
discover_finish(lampster_devices) ==
    IF lampster_devices = <<>>
      THEN ret' = None /\ Raise("DiscoveryError")
      ELSE ret' = lampster_devices /\ Return

\* a full scan: BleakScanner.discover(timeout) is awaited, the devices are
\* filtered by name
full_scan(name) ==
    /\ pc = "idle"
    /\ call' = name
    /\ \E timeout \in 1..MaxScanTicks, devices \in ScanResults :
        /\ arg' = [stop_on_first |-> FALSE, timeout |-> timeout]
        /\ rd' = [lampster_devices |-> lampster_filter(devices),
                  seen_addresses |-> {}, elapsed |-> timeout]
        /\ discover_finish(lampster_filter(devices))
    /\ UNCHANGED <<state, connected, log, pre, parked>>

\* discover(stop_on_first=False), lines 84-95
discover_full_scan == full_scan("discover")

\* library client: discover(), lines 56-68
lib_discover == full_scan("lib_discover")

\* discover(stop_on_first=True), lines 61-76: the scanner is started with
\* the detection callback
discover_start ==
    /\ pc = "idle"
    /\ call' = "discover"
    /\ \E timeout \in 1..MaxScanTicks :
        arg' = [stop_on_first |-> TRUE, timeout |-> timeout]
    /\ rd' = [lampster_devices |-> <<>>, seen_addresses |-> {}, elapsed |-> 0]
    /\ ret' = None
    /\ Goto("discover_wait")
    /\ UNCHANGED <<state, connected, log, pre, parked>>

\* detection_callback, lines 66-73: the running scanner reports a device
detection_callback ==
    /\ pc = "discover_wait"
    /\ \E device \in Devices :
        IF name_matches(device) /\ device.address \notin rd.seen_addresses
          THEN rd' = [rd EXCEPT !.seen_addresses = @ \cup {device.address},
                                !.lampster_devices = Append(@, device)]
          ELSE rd' = rd
    /\ UNCHANGED <<state, connected, pc, call, arg, log, pre, result, ret, parked>>

\* lines 80-81: nothing found yet and the timeout not reached: sleep 0.1 s
discover_sleep ==
    /\ pc = "discover_wait"
    /\ rd.lampster_devices = <<>>
    /\ rd.elapsed < arg.timeout
    /\ rd' = [rd EXCEPT !.elapsed = @ + 1]
    /\ UNCHANGED <<state, connected, pc, call, arg, log, pre, result, ret, parked>>

\* faulty variant of the end of discover: an empty list is returned
discover_stop_returns_empty ==
    /\ pc = "discover_wait"
    /\ ~(rd.lampster_devices = <<>> /\ rd.elapsed < arg.timeout)
    /\ ret' = rd.lampster_devices
    /\ Return
    /\ UNCHANGED <<state, connected, call, arg, log, pre, rd, parked>>

\* lines 80-95: the loop ends, the scanner is stopped, and the list is
\* returned unless it is empty
discover_stop ==
    /\ pc = "discover_wait"
    /\ ~(rd.lampster_devices = <<>> /\ rd.elapsed < arg.timeout)
    /\ discover_finish(rd.lampster_devices)
    /\ UNCHANGED <<state, connected, call, arg, log, pre, rd, parked>>

DiscoverNext ==
    \/ discover_start
    \/ detection_callback
    \/ discover_sleep
    \/ discover_stop
    \/ discover_full_scan
    \/ lib_discover

DiscoverSpec == Init /\ [][DiscoverNext]_vars

----------------------------------------------------------------------------
(* Reading the record of a call *)

IsWrite(e, char, val) == e.kind = "write" /\ e.char = char /\ e.val = val

IsSleep(e, ms) == e.kind = "sleep" /\ e.ms >= ms

Writes(l) == SelectSeq(l, LAMBDA e : e.kind = "write")

OkWrites(l) == SelectSeq(l, LAMBDA e : e.kind = "write" /\ e.ok)

\* the call named has returned normally
Succeeded(name) == pc = "idle" /\ call = name /\ result = "ok"

\* the call in record has failed at its n-th write: n-1 writes completed, and
\* the n-th raised or found the link lost
FailedAtWrite(n) ==
    /\ pc = "idle"
    /\ result \in {"ConnectionError", "CommandError"}
    /\ Len(OkWrites(log)) = n - 1

Intents == {"power_on", "power_off", "set_rgb_color", "set_white_color"}

----------------------------------------------------------------------------
(* Write sequences of the driver client *)

\* C1: a power_on that succeeds has issued exactly MODE=0xC0 with response,
\* a delay of at least 400 ms, MODE=0xC8 with response, WHITE=[50,0] without
\* response, in this order and nothing else; and at no point of a power_on
\* is MODE=WHITE issued without an earlier completed MODE=POWER_ON.
C1_PowerOnSequence ==
    /\ Succeeded("power_on") =>
         /\ Len(log) = 4
         /\ log[1] = WriteEv(CHAR_MODE, <<MODE_POWER_ON>>, TRUE, TRUE)
         /\ IsSleep(log[2], 400)
         /\ log[3] = WriteEv(CHAR_MODE, <<MODE_WHITE>>, TRUE, TRUE)
         /\ log[4] = WriteEv(CHAR_WHITE, <<50, 0>>, FALSE, TRUE)
    /\ call = "power_on" =>
         \A j \in DOMAIN log :
            IsWrite(log[j], CHAR_MODE, <<MODE_WHITE>>) =>
               \E i \in 1..(j - 1) :
                  log[i] = WriteEv(CHAR_MODE, <<MODE_POWER_ON>>, TRUE, TRUE)

C1_Witness == Succeeded("power_on") /\ Len(log) = 4

\* C2: after a successful power_on the local state is on, white, (50, 0),
\* and the remembered RGB colour is the one from before the call.
C2_PowerOnState ==
    Succeeded("power_on") =>
        state = LampState(TRUE, "white", pre.rgb_color, WhiteColor(50, 0))

C2_Witness ==
    /\ Succeeded("power_on")
    /\ pre.rgb_color # None
    /\ pre.white_color # WhiteColor(50, 0)
    /\ state.white_color = WhiteColor(50, 0)

\* C3: a power_off that succeeds has issued exactly MODE=0xC8 with response,
\* >= 400 ms, WHITE=[0,0] without response, >= 100 ms, RGB=[0,0,0] without
\* response, >= 400 ms, MODE=0x40 with response; MODE=POWER_OFF is never
\* issued before both colour registers were zeroed and nothing follows it.
C3_PowerOffSequence ==
    /\ Succeeded("power_off") =>
         /\ Len(log) = 7
         /\ log[1] = WriteEv(CHAR_MODE, <<MODE_WHITE>>, TRUE, TRUE)
         /\ IsSleep(log[2], 400)
         /\ log[3] = WriteEv(CHAR_WHITE, <<0, 0>>, FALSE, TRUE)
         /\ IsSleep(log[4], 100)
         /\ log[5] = WriteEv(CHAR_RGB, <<0, 0, 0>>, FALSE, TRUE)
         /\ IsSleep(log[6], 400)
         /\ log[7] = WriteEv(CHAR_MODE, <<MODE_POWER_OFF>>, TRUE, TRUE)
    /\ call = "power_off" =>
         \A j \in DOMAIN log :
            IsWrite(log[j], CHAR_MODE, <<MODE_POWER_OFF>>) =>
               /\ j = Len(log)
               /\ \E i \in 1..(j - 1) :
                     log[i] = WriteEv(CHAR_WHITE, <<0, 0>>, FALSE, TRUE)
               /\ \E i \in 1..(j - 1) :
                     log[i] = WriteEv(CHAR_RGB, <<0, 0, 0>>, FALSE, TRUE)

C3_Witness == Succeeded("power_off") /\ pre.is_on /\ pre.mode = "rgb"

\* C4: after a successful power_off the local state is off, and the
\* remembered rgb and white colours are those from before the call.
C4_PowerOffState ==
    Succeeded("power_off") =>
        state = LampState(FALSE, "off", pre.rgb_color, pre.white_color)

C4_Witness ==
    /\ Succeeded("power_off")
    /\ pre.is_on
    /\ state.rgb_color \in RGBInputs
    /\ state.white_color \in WhiteInputs

\* C5: in set_rgb_color(c) and set_white_color(w) the mode switch (MODE=0xA8,
\* resp. MODE=0xC8) is only ever issued after the colour write of the
\* argument's bytes and a delay of at least 200 ms, whatever follows it is a
\* delay of at least 400 ms, and a call that succeeds has issued it.
ColourThenMode(name, char, bytes, mode) ==
    call = name =>
      /\ \A j \in DOMAIN log :
            IsWrite(log[j], CHAR_MODE, <<mode>>) =>
               /\ j = 3
               /\ log[1] = WriteEv(char, bytes, FALSE, TRUE)
               /\ IsSleep(log[2], 200)
               /\ log[j].response
               /\ j < Len(log) => IsSleep(log[j + 1], 400)
      /\ result = "ok" =>
            /\ Len(log) >= 4
            /\ log[3] = WriteEv(CHAR_MODE, <<mode>>, TRUE, TRUE)
            /\ IsSleep(log[4], 400)

C5_ColourBeforeMode ==
    /\ call = "set_rgb_color" =>
          ColourThenMode("set_rgb_color", CHAR_RGB, rgb_to_bytes(arg), MODE_RGB)
    /\ call = "set_white_color" =>
          ColourThenMode("set_white_color", CHAR_WHITE, white_to_bytes(arg),
                         MODE_WHITE)

C5_Witness ==
    /\ Succeeded("set_white_color")
    /\ arg = WhiteColor(70, 30)
    /\ log[1] = WriteEv(CHAR_WHITE, <<70, 30>>, FALSE, TRUE)

\* C6: a successful set_rgb_color / set_white_color entered with is_on=false
\* has issued three writes, the last one MODE=POWER_ON with response; entered
\* with is_on=true it has issued two writes and no MODE=POWER_ON.
C6_PowerOnOnlyWhenOff ==
    (Succeeded("set_rgb_color") \/ Succeeded("set_white_color")) =>
        LET w == Writes(log)
        IN  IF ~pre.is_on
              THEN /\ Len(w) = 3
                   /\ w[3] = WriteEv(CHAR_MODE, <<MODE_POWER_ON>>, TRUE, TRUE)
                   /\ log[Len(log) - 1] = w[3]
              ELSE /\ Len(w) = 2
                   /\ \A i \in 1..2 :
                        ~IsWrite(w[i], CHAR_MODE, <<MODE_POWER_ON>>)

C6_Witness ==
    /\ Succeeded("set_rgb_color")
    /\ ~pre.is_on
    /\ Len(Writes(log)) = 3

\* C7: a successful set_rgb_color(c) leaves is_on=true, mode=rgb, rgb=c and
\* the white colour of before; a successful set_white_color(w) leaves
\* is_on=true, mode=white, white=w and the rgb colour of before.
C7_SetColourState ==
    /\ Succeeded("set_rgb_color") =>
          state = LampState(TRUE, "rgb", arg, pre.white_color)
    /\ Succeeded("set_white_color") =>
          state = LampState(TRUE, "white", pre.rgb_color, arg)

C7_Witness ==
    /\ Succeeded("set_white_color")
    /\ pre.mode = "rgb"
    /\ pre.rgb_color \in RGBInputs
    /\ pre.white_color # arg

\* C8: whichever write of an intent fails, the local state after the failed
\* call is the local state before it.
C8_FailedIntentKeepsState ==
    (call \in Intents /\ \E n \in 1..4 : FailedAtWrite(n)) => state = pre

\* C9: a driver-client intent that fails at its second write leaves the local
\* state as it was before the call.
C9_SecondWriteFailureKeepsState ==
    (call \in Intents /\ FailedAtWrite(2)) => state = pre

C9_Witness ==
    /\ call = "set_rgb_color"
    /\ FailedAtWrite(2)
    /\ Len(log) = 3
    /\ IsWrite(log[3], CHAR_MODE, <<MODE_RGB>>)
    /\ ~log[3].ok
    /\ pre.mode # "rgb"

\* C10: in the library client, a set_rgb_color / set_white_color that fails
\* at its second write (the colour write after the mode write) leaves the
\* local state, the mode included, as it was before the call.
C10_LibSecondWriteFailureKeepsState ==
    (call \in {"set_rgb_color", "set_white_color"} /\ FailedAtWrite(2)) =>
        state = pre

----------------------------------------------------------------------------
(* Serialisation, cancellation *)

\* the transport calls a caller's record holds
TransportCalls(l) == SelectSeq(l, LAMBDA e : e.kind \in {"write", "read"})

\* C11: two operations started concurrently on one lamp never interleave:
\* while one caller's sequence is in flight (begun, neither completed nor
\* aborted) no other caller has a sequence in flight with a transport call
\* made.
C11_NoInterleaving ==
    ~ /\ pc # "idle"
      /\ parked.pc # "idle"
      /\ TransportCalls(log) # <<>>
      /\ TransportCalls(parked.log) # <<>>

\* C12: a call cancelled at any of its awaits leaves the local state as it
\* was before the call.
C12_CancelledCallKeepsState ==
    (pc = "idle" /\ result = "CancelledError") => state = pre

----------------------------------------------------------------------------
(* Response semantics, connection errors *)

\* C13: in the driver client every write to the mode characteristic is a
\* write with response and every write to the RGB or white characteristic
\* is a write without response.
C13_ResponseByCharacteristic ==
    \A i \in DOMAIN log :
        log[i].kind = "write" =>
            (log[i].response <=> log[i].char = CHAR_MODE)

C13_Witness ==
    /\ Succeeded("set_white_color")
    /\ \E i \in DOMAIN log : IsWrite(log[i], CHAR_MODE, <<MODE_POWER_ON>>)
    /\ \E i \in DOMAIN log : log[i].kind = "write" /\ log[i].char = CHAR_WHITE

\* C14: in the library client every write to the mode characteristic is
\* issued with response=True, and the colour writes with response=False.
C14_LibModeWritesWithResponse ==
    \A i \in DOMAIN log :
        /\ (log[i].kind = "write" /\ log[i].char = CHAR_MODE)
               => log[i].response = TRUE
        /\ (log[i].kind = "write" /\ log[i].char \in {CHAR_RGB, CHAR_WHITE})
               => log[i].response = FALSE

\* the call in record failed because a write found no link: it failed, and
\* no transport call of it raised
FailedWithoutLink ==
    /\ pc = "idle"
    /\ result \in {"ConnectionError", "CommandError"}
    /\ \A i \in DOMAIN log : log[i].ok

\* C15: a write attempted while no connection is held fails with
\* ConnectionError, never CommandError, whether the call starts without a
\* connection or loses it between two writes.
C15_NoLinkIsConnectionError ==
    (call \in Intents \cup {"set_rgb_mode", "set_white_mode"}
        /\ FailedWithoutLink) => result = "ConnectionError"

----------------------------------------------------------------------------
(* Read-back decoding, polling, mode bytes, colour ranges *)

\* C16: read_state decodes the mode byte b as is_on = (b in {0xC0, 0xA8,
\* 0xC8}); mode = rgb for 0xA8, white for 0xC0 and 0xC8, off for 0x40 and
\* 0x28, unknown (and is_on false) for every other byte 0..255.
C16_ModeDecoding ==
    (pc = "idle" /\ call = "read_state" /\ result = "ok") =>
        LET b == rd[1][1]
        IN  /\ ret.is_on = (b = 192 \/ b = 168 \/ b = 200)
            /\ ret.mode = CASE b = 168 -> "rgb"
                            [] b = 192 \/ b = 200 -> "white"
                            [] b = 64 \/ b = 40 -> "off"
                            [] OTHER -> "unknown"
            /\ ret.mode = "unknown" => ~ret.is_on

C16_Witness ==
    /\ pc = "idle" /\ call = "read_state" /\ result = "ok"
    /\ rd[1] = <<192>>
    /\ ret.mode = "white"
    /\ ret.is_on

\* C17: read_state fails only when a transport read fails: whenever its
\* three reads succeeded it returns a state, whatever the bytes read.
C17_ReadStateFailsOnlyOnTransport ==
    (pc = "idle" /\ call = "read_state"
        /\ Len(log) = 3 /\ \A i \in 1..3 : log[i].kind = "read" /\ log[i].ok)
      => (result = "ok" /\ ret # None)

\* C18: _needs_poll is true when there was no poll; otherwise it is true
\* exactly when more than 30 seconds have passed (one tick under 30 s and
\* 30 s itself give false, one tick over gives true), whatever the
\* advertisement and the lamp's commanded state.
C18_NeedsPoll ==
    call = "_needs_poll" =>
        /\ arg = None => ret = TRUE
        /\ arg # None => (ret <=> arg[1] > 30 * TicksPerSecond)
        /\ arg = <<30 * TicksPerSecond - 1>> => ret = FALSE
        /\ arg = <<30 * TicksPerSecond>> => ret = FALSE
        /\ arg = <<30 * TicksPerSecond + 1>> => ret = TRUE

C18_Witness ==
    /\ call = "_needs_poll"
    /\ arg = <<30 * TicksPerSecond>>
    /\ ret = FALSE
    /\ state.is_on

\* C19: every byte the driver writes to the mode characteristic is one of
\* 0xC0, 0x40, 0xA8, 0xC8; 0x28 and bytes that decode to unknown are never
\* written.
C19_ModeBytesWritten ==
    \A i \in DOMAIN log :
        (log[i].kind = "write" /\ log[i].char = CHAR_MODE) =>
            /\ log[i].val \in {<<192>>, <<64>>, <<168>>, <<200>>}
            /\ log[i].val # <<40>>
            /\ decode_mode(log[i].val[1]) # "unknown"

C19_Witness ==
    /\ pc = "idle" /\ call = "power_off"
    /\ \E i \in DOMAIN log : IsWrite(log[i], CHAR_MODE, <<64>>)
    /\ \E i \in DOMAIN log : IsWrite(log[i], CHAR_MODE, <<200>>)

\* C20: constructing an RGBColor or a WhiteColor raises ValueError if and
\* only if some channel is below 0 or above 100; otherwise the value built
\* holds the channels as given (0 and 100 included, nothing clamped).
C20_ColourRange ==
    /\ call = "RGBColor" =>
         /\ result = "ValueError" <=>
               \E i \in 1..3 : arg[i] < 0 \/ arg[i] > 100
         /\ result # "ValueError" =>
               (ret.red = arg[1] /\ ret.green = arg[2] /\ ret.blue = arg[3])
    /\ call = "WhiteColor" =>
         /\ result = "ValueError" <=>
               \E i \in 1..2 : arg[i] < 0 \/ arg[i] > 100
         /\ result # "ValueError" =>
               (ret.warm = arg[1] /\ ret.cold = arg[2])

C20_Witness ==
    /\ call = "RGBColor"
    /\ arg = <<0, 100, 50>>
    /\ result = "ok"
    /\ ret = RGBColor(0, 100, 50)

----------------------------------------------------------------------------
(* Aborted sequences, calls without a link, read-back, mode selection *)

\* C22: a write that fails ends its sequence: it is the last transport call
\* of the call, which has raised CommandError; it is not repeated, no later
\* write or delay follows it, and nothing is sent to undo earlier writes.
C22_AbortAtFailedWrite ==
    \A i \in DOMAIN log :
        (log[i].kind = "write" /\ ~log[i].ok) =>
            /\ i = Len(log)
            /\ pc = "idle"
            /\ result = "CommandError"

C22_Witness ==
    /\ pc = "idle" /\ call = "power_off" /\ result = "CommandError"
    /\ Len(Writes(log)) = 2
    /\ IsWrite(log[Len(log)], CHAR_WHITE, <<0, 0>>)
    /\ ~log[Len(log)].ok
    /\ log[1].ok

ClientOps ==
    {"power_on", "power_off", "set_rgb_mode", "set_white_mode",
     "set_rgb_color", "set_white_color", "read_state"}

\* C26: a client operation started while there is no link raises
\* ConnectionError at once, makes no transport call and leaves the local
\* state as it was.
C26_NoLinkNoEffect ==
    [][(pc = "idle" /\ ~connected /\ call' \in ClientOps) =>
          /\ pc' = "idle"
          /\ result' = "ConnectionError"
          /\ log' = <<>>
          /\ state' = state]_vars

C26_Witness ==
    /\ pc = "idle" /\ call = "set_rgb_mode" /\ result = "ConnectionError"
    /\ log = <<>>
    /\ ~connected
    /\ state.is_on
    /\ state = pre

ReadOrder == <<CHAR_MODE, CHAR_RGB, CHAR_WHITE>>

\* C27: read_state makes reads only, in the order mode, RGB, white, three of
\* them when it returns a state, and never changes the local state.
C27_ReadStateFrame ==
    call = "read_state" =>
        /\ Len(log) <= 3
        /\ \A i \in DOMAIN log :
               log[i].kind = "read" /\ log[i].char = ReadOrder[i]
        /\ result = "ok" => Len(log) = 3
        /\ state = pre

C27_Witness ==
    /\ Succeeded("read_state")
    /\ Len(log) = 3
    /\ state.is_on
    /\ ret # state

\* C28: refresh_state sets the local state to the state decoded from the
\* three reads when the read-back succeeds, and leaves it as it was
\* otherwise.
C28_RefreshState ==
    call = "refresh_state" =>
        IF result = "ok"
          THEN /\ Len(log) = 3
               /\ state = parse_state(log[1].val, log[2].val, log[3].val)
          ELSE state = pre

C28_Witness ==
    /\ Succeeded("refresh_state")
    /\ state # pre
    /\ state.mode = "unknown"

\* C29: set_rgb_mode / set_white_mode on a connected client make one write,
\* MODE=0xA8 / MODE=0xC8 with response; when it succeeds only the mode field
\* of the local state changes, when it fails nothing does.
C29_SetModeOnly ==
    \A m \in {<<"set_rgb_mode", 168, "rgb">>, <<"set_white_mode", 200, "white">>} :
        (pc = "idle" /\ call = m[1] /\ result # "ConnectionError") =>
            /\ log = <<WriteEv(CHAR_MODE, <<m[2]>>, TRUE, result = "ok")>>
            /\ state = IF result = "ok" THEN [pre EXCEPT !.mode = m[3]] ELSE pre

C29_Witness ==
    /\ Succeeded("set_rgb_mode")
    /\ ~state.is_on
    /\ state.mode = "rgb"
    /\ pre.mode = "off"

\* C30: every write to the RGB characteristic carries 3 bytes and every
\* write to the white characteristic 2 bytes, each byte in 0..100.
C30_ColourBytesWritten ==
    \A i \in DOMAIN log :
        log[i].kind = "write" =>
            /\ log[i].char = CHAR_RGB => Len(log[i].val) = 3
            /\ log[i].char = CHAR_WHITE => Len(log[i].val) = 2
            /\ log[i].char \in {CHAR_RGB, CHAR_WHITE} =>
                   \A k \in DOMAIN log[i].val :
                       0 <= log[i].val[k] /\ log[i].val[k] <= 100

C30_Witness ==
    /\ Succeeded("set_white_color")
    /\ \E i \in DOMAIN log : IsWrite(log[i], CHAR_WHITE, <<0, 100>>)
    /\ state.white_color = WhiteColor(0, 100)

----------------------------------------------------------------------------
(* Wire format of colours *)

\* C21: to_bytes of a valid RGBColor is the bytes [red, green, blue] in that
\* order, and of a valid WhiteColor the bytes [warm, cold]; the colour
\* read_state builds from those bytes equals the original.
C21_ColourRoundTrip ==
    /\ (call \in {"to_bytes", "read_state"} /\ IsRGB(arg)) =>
           rd = <<arg.red, arg.green, arg.blue>>
    /\ (call \in {"to_bytes", "read_state"} /\ ~IsRGB(arg)) =>
           rd = <<arg.warm, arg.cold>>
    /\ call = "read_state" =>
           /\ result = "ok"
           /\ IF IsRGB(arg) THEN ret.rgb_color = arg
                            ELSE ret.white_color = arg

C21_Witness ==
    /\ call = "read_state" /\ result = "ok"
    /\ arg = RGBColor(0, 50, 100)
    /\ rd = <<0, 50, 100>>
    /\ ret.rgb_color = RGBColor(0, 50, 100)

----------------------------------------------------------------------------
(* Identification of the failing step *)

\* C23: the error of a failed sequence identifies the step that failed: two
\* failures of the same operation at different steps give different errors.
C23_ErrorNamesStep ==
    (Len(ret) = 2 /\ arg.m # arg.n) => ret[1] # ret[2]

----------------------------------------------------------------------------
(* Discovery that finds nothing *)

Discovered == pc = "idle" /\ call \in {"discover", "lib_discover"}

----------------------------------------------------------------------------
(* Connection per command *)

\* C25: when async_command or _async_poll has returned or raised, the
\* connection it opened is no longer held, whichever way it ended.
C25_ConnectionReleased ==
    parked.pc = "idle" => ~connected

C25_Witness ==
    /\ parked.pc = "idle"
    /\ parked.call = "async_command"
    /\ parked.arg = "power_off"
    /\ parked.result = "CommandError"
    /\ call = "read_state"
    /\ Len(log) = 2
    /\ ~connected

----------------------------------------------------------------------------
(* What the device holds after a sequence *)

\* the value a characteristic holds after the writes of l, for a device
\* that stores the last value written (None if l wrote none)
DeviceValue(l, char) ==
    LET w == SelectSeq(l, LAMBDA e : e.kind = "write" /\ e.char = char /\ e.ok)
    IN  IF w = <<>> THEN None ELSE w[Len(w)].val

\* C31: after set_white_color(c) succeeds the last value written to the
\* white characteristic is [c.warm, c.cold]: a device that stores the last
\* written value reads back the values sent.
C31_WhiteReadsBack ==
    Succeeded("set_white_color") =>
        DeviceValue(log, CHAR_WHITE) = <<arg.warm, arg.cold>>

C31_Witness ==
    /\ Succeeded("set_white_color")
    /\ arg = WhiteColor(70, 30)
    /\ DeviceValue(log, CHAR_WHITE) = <<70, 30>>
    /\ DeviceValue(log, CHAR_MODE) = <<192>>

\* C35: after every successful intent, the last mode byte written, decoded
\* as read_state decodes it, gives the is_on and mode of the local state.
C35_OptimisticMatchesReadBack ==
    \A name \in Intents :
        Succeeded(name) =>
            LET b == DeviceValue(log, CHAR_MODE)[1]
            IN  /\ decode_is_on(b) = state.is_on
                /\ decode_mode(b) = state.mode

\* C36: in every local state of the driver client, is_on implies that the
\* mode is white or rgb.
C36_OnImpliesLitMode ==
    state.is_on => state.mode \in {"white", "rgb"}

C36_Witness ==
    /\ Succeeded("refresh_state")
    /\ state.is_on
    /\ state.mode = "rgb"
    /\ ~pre.is_on

\* C38: power_on is accepted in every local state: on a live link it is
\* refused only by a failed write, and when it succeeds on a lamp that is
\* already on it has made the same three writes and left mode white and
\* white colour (50, 0), whatever they were.
C38_PowerOnWhenOn ==
    [][/\ (pc = "idle" /\ connected /\ connected' /\ call' = "power_on"
              /\ pc' = "idle")
           => (result' = "CommandError" /\ Len(log') = 1 /\ ~log'[1].ok)
       /\ (pc' = "idle" /\ call' = "power_on" /\ result' = "ok" /\ pre'.is_on)
           => /\ Writes(log') = <<WriteEv(CHAR_MODE, <<192>>, TRUE, TRUE),
                                  WriteEv(CHAR_MODE, <<200>>, TRUE, TRUE),
                                  WriteEv(CHAR_WHITE, <<50, 0>>, FALSE, TRUE)>>
              /\ state' = [pre' EXCEPT !.mode = "white",
                                       !.white_color = WhiteColor(50, 0)]]_vars

C38_Witness ==
    /\ Succeeded("power_on")
    /\ pre.is_on
    /\ pre.mode = "rgb"
    /\ pre.white_color = WhiteColor(70, 30)
    /\ state.mode = "white"
    /\ state.white_color = WhiteColor(50, 0)

----------------------------------------------------------------------------
(* Commands through the coordinator *)

\* C33: async_command reads the state back only after the command
\* succeeded, publishes the state read only when the read-back succeeded
\* too, and otherwise (device unavailable, command failed, read-back failed)
\* leaves the coordinator's data as it was and raises the error.
C33_PublishOnlyAfterReadBack ==
    [][/\ (InBlock("async_command") /\ call' = "read_state"
              /\ call # "read_state")
           => (call = parked.arg /\ result = "ok")
       /\ (InBlock("async_command") /\ parked'.pc = "idle")
           => IF call = "read_state" /\ result = "ok"
                THEN /\ parked'.result = "ok"
                     /\ parked'.ret = ret
                     /\ ret = parse_state(log[1].val, log[2].val, log[3].val)
                ELSE /\ parked'.ret = parked.ret
                     /\ parked'.result # "ok"
                     /\ parked'.result =
                          (IF call = "none" THEN "AttributeError" ELSE result)
       /\ (parked.pc = "idle" /\ parked'.pc = "idle" /\ parked' # parked)
           => /\ parked'.ret = parked.ret
              /\ parked'.result \in {"ConnectionError", "BleakError"}]_vars

C33_Witness ==
    /\ parked.pc = "idle"
    /\ parked.call = "async_command"
    /\ parked.arg = "set_rgb_color"
    /\ parked.result = "ok"
    /\ Succeeded("read_state")
    /\ parked.ret = ret
    /\ ret.mode = "off"

\* C34: every set_rgb_color / set_white_color issued through the
\* coordinator that succeeds has made three writes, the last of them
\* MODE=POWER_ON, whatever state was published before.
C34_CoordinatorAlwaysPowersOn ==
    (pc = "idle" /\ call \in {"set_rgb_color", "set_white_color"}
        /\ result = "ok") =>
        LET w == Writes(log)
        IN  /\ Len(w) = 3
            /\ IsWrite(w[3], CHAR_MODE, <<192>>)

C34_Witness ==
    /\ InBlock("async_command")
    /\ Succeeded("set_white_color")
    /\ IsWrite(log[Len(log) - 1], CHAR_MODE, <<192>>)
    /\ parked.ret # None
    /\ parked.ret.is_on

----------------------------------------------------------------------------
(* Independence of instances *)

\* C32: a step of one client instance, whether its operation succeeds,
\* fails or is still in flight, leaves the local state and the link of the
\* other instance unchanged, however the two are interleaved (the only
\* other steps hand the processor to the other instance and change neither).
C32_InstancesIndependent ==
    [][\/ /\ parked'.state = parked.state
          /\ parked'.connected = parked.connected
       \/ /\ parked'.state = state
          /\ parked'.connected = connected
          /\ state' = parked.state
          /\ connected' = parked.connected]_vars

C32_Witness ==
    /\ parked.state.is_on
    /\ parked.connected
    /\ parked.pc = "idle"
    /\ pc = "idle" /\ call = "power_on" /\ result = "CommandError"
    /\ Len(log) = 3
    /\ ~state.is_on

----------------------------------------------------------------------------
(* Published state under an overlapping poll *)

\* C37: when a poll and a command overlap, the data published once both
\* have finished is the result of the last read of the lamp, which is the
\* state the lamp holds after the command's writes, never a state read
\* before them.
C37_PublishedIsLatest ==
    (/\ pc = "idle" /\ call = "async_command" /\ result = "ok"
     /\ parked.pc = "idle" /\ parked.call = "_async_poll"
     /\ parked.result = "ok")
      => parked.ret = parse_state(register(log, CHAR_MODE),
                                  register(log, CHAR_RGB),
                                  register(log, CHAR_WHITE))

----------------------------------------------------------------------------
(* Colours built by the light entity *)

====
